---- MODULE Spec2Model ----
(***************************************************************************)
(* Model of the order-split service (src/function.py): the retrying        *)
(* request executor, the fulfillment-order fetcher and its metafield       *)
(* normalisation, the item classifier, the location grouper and the        *)
(* split/tag decision tree run by lambda_handler against the remote        *)
(* order-management API.                                                   *)
(***************************************************************************)
EXTENDS Naturals, Sequences, FiniteSets, TLC

VARIABLES
    order_id,             \* the request's OrderId ("" when none was supplied)
    remote,               \* the remote fulfillment order: its line-item nodes
    remoteSplits,         \* number of sibling orders the remote has created
    pc,                   \* position of lambda_handler / the decision tree
    categories,           \* categorize_items' result, as the decision tree holds it
    results,              \* the decision tree's results dictionary
    fulfillment_details,  \* latest value of fulfillment_details (or NoDetails)
    remaining_line_items, \* ids of the latest remaining_line_items map
    location_groups,      \* location_groups, in insertion order
    group_index,          \* position of the for-loop over location_groups
    log,                  \* every remote operation issued so far, in order
    lastCall,             \* what send_request_with_retry did for the latest call
    response,             \* lambda_handler's return value
    fnItems,              \* input of the pure functions (their own specification)
    fnCategories,         \* categorize_items(fnItems)
    fnGroups,             \* group_by_external_location over fnItems
    fnPc,
    exOp,                 \* the operation whose call runs send_request_with_retry
    exOutcomes,           \* what requests.post does on each attempt of that call
    exReturn,             \* what send_request_with_retry did and returned
    exEnd,                \* how the calling operation ended
    exPc,
    nmNode,               \* a line-item node of a fetch response, to be normalised
    nmItem,               \* the entry of parsed_data['line_items'] made from it
    nmPc,
    twin                  \* an earlier run on the same order, for two-run properties

orchVars == <<order_id, remote, remoteSplits, pc, categories, results,
              fulfillment_details, remaining_line_items, location_groups,
              group_index, log, lastCall, response>>
fnVars == <<fnItems, fnCategories, fnGroups, fnPc>>
exVars == <<exOp, exOutcomes, exReturn, exEnd, exPc>>
nmVars == <<nmNode, nmItem, nmPc>>
vars == <<orchVars, fnVars, exVars, nmVars, twin>>

----------------------------------------------------------------------------
(* Bounds of the model *)

\* Most line items of one fulfillment order.
MaxItems == 2
\* Longest availability_location list of one item.
MaxLocs == 2
\* Largest quantity of an order's first line item.
MaxQty == 1
\* Most failed attempts the remote puts before a 200 response.
MaxFailedFirst == 1

----------------------------------------------------------------------------
(* Program constants *)

RooftopshopMagazijn == "Rooftopshop Magazijn"
CompriAluminium == "Compri Aluminium"
RedfoxEPDM == "Redfox EPDM"
UnknownGroup == "unknown"
DaktrimTag == "daktrimFulfillment"

\* send_request_with_retry(query, max_retries=3, delay=2)
max_retries == 3
delay == 2

----------------------------------------------------------------------------
(* Input domains *)

LocationNames == {RooftopshopMagazijn, CompriAluminium, RedfoxEPDM}

\* Fulfillment-order line-item ids, by position in the order.
LineIds == <<"gid://FulfillmentOrderLineItem/1", "gid://FulfillmentOrderLineItem/2",
             "gid://FulfillmentOrderLineItem/3", "gid://FulfillmentOrderLineItem/4">>

RECURSIVE SeqsUpTo(_, _)
\* Sequences over S of length at most n.
SeqsUpTo(S, n) ==
    IF n = 0 THEN {<<>>}
    ELSE LET shorter == SeqsUpTo(S, n - 1)
         IN  shorter \cup {Append(s, x) : s \in shorter, x \in S}

SeqContains(s, x) == \E i \in 1..Len(s) : s[i] = x

NoRepeat(s) == \A i, j \in 1..Len(s) : i # j => s[i] # s[j]

\* The location lists an item's availability_location metafield may hold.
LocationLists == {s \in SeqsUpTo(LocationNames, MaxLocs) : NoRepeat(s)}

Quantities == 1..MaxQty

\* A normalised line item, as get_fulfillment_order_details appends it.
LineItem(id, qty, locs, lt, kp) ==
    [fulfillment_order_line_item_id |-> id,
     quantity |-> qty,
     available_locations |-> locs,
     is_length_transport |-> lt,
     is_daktrim_koppelstukje |-> kp]

ItemChoices == [available_locations : LocationLists,
                is_length_transport : BOOLEAN, is_daktrim_koppelstukje : BOOLEAN]

\* Line-item lists of at most n items with distinct ids (id by position); the
\* first item's quantity is q and each later item's is one more than the one before.
ItemLists(n) ==
    {[i \in 1..Len(cs) |->
        LineItem(LineIds[i], q + i - 1, cs[i].available_locations,
                 cs[i].is_length_transport, cs[i].is_daktrim_koppelstukje)] :
     cs \in SeqsUpTo(ItemChoices, n), q \in Quantities}

----------------------------------------------------------------------------
(* categorize_items *)

EmptyCategories ==
    [length_rooftopshop |-> <<>>,
     non_length_rooftopshop |-> <<>>,
     length_external |-> <<>>,
     non_length_external |-> <<>>,
     daktrim_koppelstukje_rooftopshop |-> <<>>]

BucketNames == {"length_rooftopshop", "non_length_rooftopshop", "length_external",
                "non_length_external", "daktrim_koppelstukje_rooftopshop"}

is_at_rooftopshop(item) == SeqContains(item.available_locations, RooftopshopMagazijn)

item_details(item) ==
    [id |-> item.fulfillment_order_line_item_id,
     quantity |-> item.quantity,
     locations |-> item.available_locations,
     is_length_transport |-> item.is_length_transport,
     is_daktrim_koppelstukje |-> item.is_daktrim_koppelstukje]

AppendTo(cats, bucket, d) == [cats EXCEPT ![bucket] = Append(@, d)]

\* A classifier whose special case lacks its 'continue': the coupling piece
\* falls through into the length / non-length buckets as well.
CategorizeItemNoContinue(cats, item) ==
    LET d == item_details(item)
        c1 == IF item.is_daktrim_koppelstukje /\ is_at_rooftopshop(item)
              THEN AppendTo(cats, "daktrim_koppelstukje_rooftopshop", d)
              ELSE cats
    IN  IF item.is_length_transport
        THEN IF is_at_rooftopshop(item)
             THEN AppendTo(c1, "length_rooftopshop", d)
             ELSE AppendTo(c1, "length_external", d)
        ELSE IF is_at_rooftopshop(item)
             THEN AppendTo(c1, "non_length_rooftopshop", d)
             ELSE AppendTo(c1, "non_length_external", d)

\* A classifier that tests the length flag before the coupling-piece flag.
CategorizeItemLengthFirst(cats, item) ==
    LET d == item_details(item)
    IN  IF item.is_length_transport
        THEN IF is_at_rooftopshop(item)
             THEN AppendTo(cats, "length_rooftopshop", d)
             ELSE AppendTo(cats, "length_external", d)
        ELSE IF item.is_daktrim_koppelstukje /\ is_at_rooftopshop(item)
             THEN AppendTo(cats, "daktrim_koppelstukje_rooftopshop", d)
             ELSE IF is_at_rooftopshop(item)
                  THEN AppendTo(cats, "non_length_rooftopshop", d)
                  ELSE AppendTo(cats, "non_length_external", d)

\* One pass of the loop body of categorize_items: the bucket assignment.
CategorizeItem(cats, item) ==
    LET d == item_details(item)
    IN  IF item.is_daktrim_koppelstukje /\ is_at_rooftopshop(item)
        THEN AppendTo(cats, "daktrim_koppelstukje_rooftopshop", d)
        ELSE IF item.is_length_transport
             THEN IF is_at_rooftopshop(item)
                  THEN AppendTo(cats, "length_rooftopshop", d)
                  ELSE AppendTo(cats, "length_external", d)
             ELSE IF is_at_rooftopshop(item)
                  THEN AppendTo(cats, "non_length_rooftopshop", d)
                  ELSE AppendTo(cats, "non_length_external", d)

\* One pass of the loop body: the external locations tracked for the summary.
TrackExternal(ext, item) ==
    IF ~is_at_rooftopshop(item) /\ item.available_locations # <<>>
    THEN ext \cup {item.available_locations[i] : i \in
                     {j \in 1..Len(item.available_locations) :
                        item.available_locations[j] # RooftopshopMagazijn}}
    ELSE ext

RECURSIVE CategorizeLoop(_, _, _, _)
CategorizeLoop(items, i, cats, ext) ==
    IF i > Len(items) THEN [cats |-> cats, ext |-> ext]
    ELSE CategorizeLoop(items, i + 1, CategorizeItem(cats, items[i]),
                        TrackExternal(ext, items[i]))

\* A summary whose has_length_items also counts length-flagged coupling pieces.
SummaryCountingCoupling(cats, ext) ==
    [has_length_items |->
        Len(cats.length_rooftopshop) + Len(cats.length_external) > 0
        \/ \E i \in 1..Len(cats.daktrim_koppelstukje_rooftopshop) :
              cats.daktrim_koppelstukje_rooftopshop[i].is_length_transport,
     has_daktrim_koppelstukje_items |-> Len(cats.daktrim_koppelstukje_rooftopshop) > 0,
     all_items_at_rooftopshop |->
        Len(cats.length_external) + Len(cats.non_length_external) = 0,
     all_non_length_at_rooftopshop |-> Len(cats.non_length_external) = 0,
     external_locations |-> ext]

\* categories["summary"]
Summary(cats, ext) ==
    [has_length_items |->
        Len(cats.length_rooftopshop) + Len(cats.length_external) > 0,
     has_daktrim_koppelstukje_items |-> Len(cats.daktrim_koppelstukje_rooftopshop) > 0,
     all_items_at_rooftopshop |->
        Len(cats.length_external) + Len(cats.non_length_external) = 0,
     all_non_length_at_rooftopshop |-> Len(cats.non_length_external) = 0,
     external_locations |-> ext]

categorize_items(order_details) ==
    LET r == CategorizeLoop(order_details.line_items, 1, EmptyCategories, {})
    IN  [length_rooftopshop |-> r.cats.length_rooftopshop,
         non_length_rooftopshop |-> r.cats.non_length_rooftopshop,
         length_external |-> r.cats.length_external,
         non_length_external |-> r.cats.non_length_external,
         daktrim_koppelstukje_rooftopshop |-> r.cats.daktrim_koppelstukje_rooftopshop,
         summary |-> Summary(r.cats, r.ext)]

----------------------------------------------------------------------------
(* group_by_external_location *)

\* Index of the first location that is not the home warehouse, 0 when none.
FirstExternalIndex(locations) ==
    LET idx == {i \in 1..Len(locations) : locations[i] # RooftopshopMagazijn}
    IN  IF idx = {} THEN 0 ELSE CHOOSE i \in idx : \A j \in idx : i <= j

GroupIndex(groups, location) ==
    LET idx == {i \in 1..Len(groups) : groups[i].location = location}
    IN  IF idx = {} THEN 0 ELSE CHOOSE i \in idx : TRUE

\* An append that opens a new group for every entry, whether or not the
\* location already has one.
GroupAppendAlwaysNew(groups, location, entry) ==
    Append(groups, [location |-> location, items |-> <<entry>>])

\* location_groups[location].append(entry), creating the key when it is new.
GroupAppend(groups, location, entry) ==
    LET k == GroupIndex(groups, location)
    IN  IF k = 0
        THEN Append(groups, [location |-> location, items |-> <<entry>>])
        ELSE [groups EXCEPT ![k].items = Append(@, entry)]

SplitEntry(item) == [id |-> item.id, quantity |-> item.quantity]

\* A grouper that files an item without any location under no group at all.
GroupOneDropEmpty(groups, item) ==
    LET k == FirstExternalIndex(item.locations)
    IN  IF k # 0 THEN GroupAppend(groups, item.locations[k], SplitEntry(item))
        ELSE IF item.locations # <<>>
             THEN GroupAppend(groups, UnknownGroup, SplitEntry(item))
             ELSE groups

\* One pass of the loop body of group_by_external_location.
GroupOne(groups, item) ==
    LET k == IF item.locations # <<>> THEN FirstExternalIndex(item.locations) ELSE 0
    IN  IF k # 0
        THEN GroupAppend(groups, item.locations[k], SplitEntry(item))
        ELSE GroupAppend(groups, UnknownGroup, SplitEntry(item))

RECURSIVE GroupLoop(_, _, _)
GroupLoop(items, i, groups) ==
    IF i > Len(items) THEN groups
    ELSE GroupLoop(items, i + 1, GroupOne(groups, items[i]))

group_by_external_location(items) == GroupLoop(items, 1, <<>>)

\* A mapping without the two bespoke tags.
get_location_tag_default(location) == location \o "Fulfillment"

\* get_location_tag
get_location_tag(location) ==
    IF location = CompriAluminium THEN "compriFulfillment"
    ELSE IF location = RedfoxEPDM THEN "redfoxFulfillment"
    ELSE location \o "Fulfillment"

----------------------------------------------------------------------------
(* send_request_with_retry *)

\* Python's None, as returned by the executor and the operations built on it.
None == [kind |-> "None"]

\* time.sleep(0.5) after a 200 response, in milliseconds.
success_delay_ms == 500

\* What one requests.post does: raise a RequestException, or answer.
RaisesException == [kind |-> "exception"]
HttpResponse(status_code, json) ==
    [kind |-> "response", status_code |-> status_code, json |-> json]

RECURSIVE RetryLoopOneMore(_, _, _)
\* A loop that runs one iteration more than max_retries.
RetryLoopOneMore(outcomes, attempt, slept) ==
    IF attempt > max_retries
    THEN [result |-> None, sends |-> attempt, slept |-> slept]
    ELSE LET o == outcomes[attempt + 1]
         IN  IF o.kind = "response" /\ o.status_code = 200
             THEN [result |-> o.json, sends |-> attempt + 1,
                   slept |-> Append(slept, success_delay_ms)]
             ELSE RetryLoopOneMore(outcomes, attempt + 1,
                            IF attempt < max_retries - 1
                            THEN Append(slept, delay * 1000 * (attempt + 1))
                            ELSE slept)

RECURSIVE RetryLoopRetryingErrors(_, _, _)
\* A loop that treats a 200 response with an 'errors' key as a failed attempt.
RetryLoopRetryingErrors(outcomes, attempt, slept) ==
    IF attempt >= max_retries
    THEN [result |-> None, sends |-> attempt, slept |-> slept]
    ELSE LET o == outcomes[attempt + 1]
         IN  IF o.kind = "response" /\ o.status_code = 200 /\ o.json.errors = ""
             THEN [result |-> o.json, sends |-> attempt + 1,
                   slept |-> Append(slept, success_delay_ms)]
             ELSE RetryLoopRetryingErrors(outcomes, attempt + 1,
                            IF attempt < max_retries - 1
                            THEN Append(slept, delay * 1000 * (attempt + 1))
                            ELSE slept)

RECURSIVE RetryLoopSleepingAfterLast(_, _, _)
\* A loop that backs off after every failed attempt, the last one included.
RetryLoopSleepingAfterLast(outcomes, attempt, slept) ==
    IF attempt >= max_retries
    THEN [result |-> None, sends |-> attempt, slept |-> slept]
    ELSE LET o == outcomes[attempt + 1]
         IN  IF o.kind = "response" /\ o.status_code = 200
             THEN [result |-> o.json, sends |-> attempt + 1,
                   slept |-> Append(slept, success_delay_ms)]
             ELSE RetryLoopSleepingAfterLast(outcomes, attempt + 1,
                            Append(slept, delay * 1000 * (attempt + 1)))

RECURSIVE RetryLoop(_, _, _)
\* The for-loop of send_request_with_retry from iteration 'attempt' (0-based) on;
\* outcomes[attempt + 1] is what that iteration's requests.post does.
RetryLoop(outcomes, attempt, slept) ==
    IF attempt >= max_retries
    THEN [result |-> None, sends |-> attempt, slept |-> slept]
    ELSE LET o == outcomes[attempt + 1]
         IN  IF o.kind = "response" /\ o.status_code = 200
             THEN [result |-> o.json, sends |-> attempt + 1,
                   slept |-> Append(slept, success_delay_ms)]
             ELSE RetryLoop(outcomes, attempt + 1,
                            IF attempt < max_retries - 1
                            THEN Append(slept, delay * 1000 * (attempt + 1))
                            ELSE slept)

send_request_with_retry(outcomes) == RetryLoop(outcomes, 0, <<>>)

\* k failed attempts: a transport failure, then a non-200 status, alternating.
FailedAttempts(k) ==
    [i \in 1..k |-> IF i % 2 = 1 THEN RaisesException
                    ELSE HttpResponse(500, None)]

\* What the remote may do to one call: answer 200 with one of 'bodies' after
\* fewer than max_retries failed attempts, or fail every attempt.
AttemptPlans(bodies) ==
    {FailedAttempts(k) \o <<HttpResponse(200, b)>> :
        k \in {n \in 0..(max_retries - 1) : n <= MaxFailedFirst}, b \in bodies}
    \cup {FailedAttempts(max_retries)}

----------------------------------------------------------------------------
(* The remote API's response bodies *)

\* The value of an availability_location metafield: JSON text.
JsonList(locations) == [json |-> "list", items |-> locations]
JsonString(str) == [json |-> "string", str |-> str]
JsonNull == [json |-> "null"]
NotJson(text) == [json |-> "invalid", text |-> text]

BoolText(b) == IF b THEN "true" ELSE "false"

\* str.lower() on the flag texts the model uses.
Lower(text) ==
    IF text \in {"true", "True", "TRUE"} THEN "true"
    ELSE IF text \in {"false", "False", "FALSE"} THEN "false"
    ELSE text

\* A line-item node of the GetFulfillmentOrder response.
LineItemNode(item) ==
    [id |-> item.fulfillment_order_line_item_id,
     quantity |-> item.quantity,
     metafields |-> <<[key |-> "availability_location",
                       value |-> JsonList(item.available_locations)],
                      [key |-> "length_transport",
                       value |-> BoolText(item.is_length_transport)],
                      [key |-> "daktrim_koppelstukje",
                       value |-> BoolText(item.is_daktrim_koppelstukje)]>>]

OrderStatus == "OPEN"

\* A 200 body of the fetch query; errors = "" when the body has no 'errors' key,
\* found = FALSE when data.fulfillmentOrder is null.
FetchBody(errors, found, edges) ==
    [errors |-> errors, found |-> found, status |-> OrderStatus, edges |-> edges]

\* A 200 body of the split mutation; new_id / original_id = "" when absent.
SplitBody(errors, userErrors, splits) ==
    [errors |-> errors, userErrors |-> userErrors, fulfillmentOrderSplits |-> splits]
SplitPair(remaining_id, original_id) ==
    [remainingFulfillmentOrder |-> [id |-> remaining_id, status |-> OrderStatus],
     fulfillmentOrder |-> [id |-> original_id, status |-> OrderStatus]]

\* A 200 body of the tagsAdd mutation.
TagBody(errors, userErrors) == [errors |-> errors, userErrors |-> userErrors]

GraphQLError == "Throttled"
UserError == "Quantity exceeds the remaining quantity"
FulfillmentOrderGid == "gid://shopify/FulfillmentOrder/1"
NewOrderGids == <<"gid://shopify/FulfillmentOrder/2", "gid://shopify/FulfillmentOrder/3",
                  "gid://shopify/FulfillmentOrder/4", "gid://shopify/FulfillmentOrder/5",
                  "gid://shopify/FulfillmentOrder/6">>

----------------------------------------------------------------------------
(* get_fulfillment_order_details *)

\* The text of a metafield value, as the remote sends it.
RawText(value) ==
    IF value.json = "string" THEN "\"" \o value.str \o "\""
    ELSE IF value.json = "null" THEN "null"
    ELSE IF value.json = "invalid" THEN value.text
    ELSE "[...]"

\* A parse that falls back to the raw text when json.loads raises or the parsed
\* value is not a list.
parse_available_locations_raw(value) ==
    IF value.json = "list" THEN value.items
    ELSE IF RawText(value) # "" THEN <<RawText(value)>>
    ELSE <<>>

\* json.loads(value) followed by the list check; [] when json.loads raises.
parse_available_locations(value) ==
    IF value.json = "list" THEN value.items
    ELSE IF value.json = "string" THEN (IF value.str # "" THEN <<value.str>> ELSE <<>>)
    ELSE <<>>

parse_flag(value) == Lower(value) = "true"

RECURSIVE MetafieldLoop(_, _, _)
\* The loop over one variant's metafield nodes; a later node overrides an earlier.
MetafieldLoop(metafields, i, acc) ==
    IF i > Len(metafields) THEN acc
    ELSE LET m == metafields[i]
         IN  MetafieldLoop(metafields, i + 1,
                IF m.key = "availability_location"
                THEN [acc EXCEPT !.available_locations = parse_available_locations(m.value)]
                ELSE IF m.key = "length_transport"
                THEN [acc EXCEPT !.is_length_transport = parse_flag(m.value)]
                ELSE IF m.key = "daktrim_koppelstukje"
                THEN [acc EXCEPT !.is_daktrim_koppelstukje = parse_flag(m.value)]
                ELSE acc)

\* The line item appended to parsed_data['line_items'] for one edge.
ParseNode(node) ==
    LET m == MetafieldLoop(node.metafields, 1,
                [available_locations |-> <<>>, is_length_transport |-> FALSE,
                 is_daktrim_koppelstukje |-> FALSE])
    IN  LineItem(node.id, node.quantity, m.available_locations,
                 m.is_length_transport, m.is_daktrim_koppelstukje)

\* How a call of get_fulfillment_order_details ends.
Raised(message) == [kind |-> "raised", message |-> message]
Details(status, line_items) ==
    [kind |-> "details", status |-> status, line_items |-> line_items]

TypeErrorMessage == "argument of type 'NoneType' is not iterable"

\* get_fulfillment_order_details from the executor's result on: with result None
\* the guard's first disjunct holds and "'errors' in result" raises TypeError.
get_fulfillment_order_details(result) ==
    IF result = None THEN Raised(TypeErrorMessage)
    ELSE IF result.errors # "" \/ ~result.found THEN None
    ELSE Details(result.status, [i \in 1..Len(result.edges) |-> ParseNode(result.edges[i])])

----------------------------------------------------------------------------
(* split_fulfillment_order, add_tag_to_order *)

RECURSIVE JsonDumps(_)
\* json.dumps of a list of messages, as far as the model tells messages apart.
JsonDumps(messages) ==
    IF messages = <<>> THEN ""
    ELSE IF Len(messages) = 1 THEN messages[1]
    ELSE messages[1] \o ", " \o JsonDumps(Tail(messages))

\* (new_id, status); new_id = "" stands for None.
SplitReturn(new_id, status) == [new_id |-> new_id, status |-> status]

\* split_fulfillment_order from the executor's result on.
split_fulfillment_order(split_data) ==
    IF split_data = None THEN SplitReturn("", "No response from Shopify API")
    ELSE IF split_data.errors # ""
    THEN SplitReturn("", "GraphQL errors from Shopify API: " \o split_data.errors)
    ELSE IF split_data.userErrors # <<>>
    THEN SplitReturn("", "User errors from Shopify API: " \o JsonDumps(split_data.userErrors))
    ELSE IF split_data.fulfillmentOrderSplits = <<>>
    THEN SplitReturn("", "No splits returned from API")
    ELSE LET first == split_data.fulfillmentOrderSplits[1]
         IN  IF first.remainingFulfillmentOrder.id # ""
             THEN SplitReturn(first.remainingFulfillmentOrder.id,
                              first.remainingFulfillmentOrder.status)
             ELSE IF first.fulfillmentOrder.id # ""
             THEN SplitReturn(first.fulfillmentOrder.id, first.fulfillmentOrder.status)
             ELSE SplitReturn("", "Split successful but couldn't identify new fulfillment order ID")

\* add_tag_to_order from the executor's result on (order_id is not empty).
add_tag_to_order(result) ==
    IF result = None THEN FALSE
    ELSE IF result.errors # "" THEN FALSE
    ELSE IF result.userErrors # <<>> THEN FALSE
    ELSE TRUE

----------------------------------------------------------------------------
(* The remote order-management API *)

OrderIds == {"", "5001"}

NodeIds(nodes) == {nodes[i].id : i \in 1..Len(nodes)}

\* The bodies the remote may answer a fetch with; the first is the order as it is.
FetchBodies ==
    {FetchBody("", TRUE, remote),
     FetchBody(GraphQLError, FALSE, <<>>),
     FetchBody("", FALSE, <<>>)}

SplitItemIds(items) == {items[i].id : i \in 1..Len(items)}

\* The bodies that report a performed split: the new sibling order's id comes as
\* remainingFulfillmentOrder.id, or only as fulfillmentOrder.id.
SplitDoneBodies ==
    {SplitBody("", <<>>, <<SplitPair(NewOrderGids[remoteSplits + 1], FulfillmentOrderGid)>>),
     SplitBody("", <<>>, <<SplitPair("", NewOrderGids[remoteSplits + 1])>>)}

SplitRefusedBodies ==
    {SplitBody(GraphQLError, <<>>, <<>>),
     SplitBody("", <<UserError>>, <<>>),
     SplitBody("", <<>>, <<>>),
     SplitBody("", <<>>, <<SplitPair("", "")>>)}

\* The remote performs a split only of line items the order still holds.
SplitBodies(items) ==
    IF SplitItemIds(items) \subseteq NodeIds(remote) /\ remoteSplits < Len(NewOrderGids)
    THEN SplitDoneBodies \cup SplitRefusedBodies
    ELSE SplitRefusedBodies

TagBodies ==
    {TagBody("", <<>>), TagBody(GraphQLError, <<>>), TagBody("", <<UserError>>)}

\* The remote order after the executor's call: a split that was performed moved
\* its line items to the new sibling order.
RemoteAfterSplit(items, result) ==
    IF result \in SplitDoneBodies
    THEN LET keep == {i \in 1..Len(remote) : remote[i].id \notin SplitItemIds(items)}
             Nth(n) == CHOOSE i \in keep : Cardinality({j \in keep : j < i}) = n - 1
         IN  [n \in 1..Cardinality(keep) |-> remote[Nth(n)]]
    ELSE remote

----------------------------------------------------------------------------
(* lambda_handler and process_fulfillment_according_to_decision_tree *)

NoDetails == None
NoResponse == [kind |-> "pending"]

\* One entry of the log of remote operations.
LogEntry(op, items, tag, ok) == [op |-> op, items |-> items, tag |-> tag, ok |-> ok]

\* Position of the first 200 response of a plan, 0 when it has none.
First200(plan) ==
    LET idx == {i \in 1..Len(plan) : plan[i].kind = "response" /\ plan[i].status_code = 200}
    IN  IF idx = {} THEN 0 ELSE CHOOSE i \in idx : \A j \in idx : i <= j

UserErrorsOf(result) ==
    IF result # None /\ "userErrors" \in DOMAIN result THEN result.userErrors ELSE <<>>

\* What the latest call did: the requests sent, the sleeps, and what came back.
CallRecord(op, plan, r) ==
    [op |-> op, sends |-> r.sends, slept |-> r.slept, none |-> r.result = None,
     first200 |-> First200(plan), user_errors |-> UserErrorsOf(r.result)]

\* results as the decision tree creates it; error = "" stands for None (every
\* message the code assigns is a non-empty string).
InitialResults == [success |-> TRUE, splits |-> <<>>, tags_added |-> <<>>, error |-> ""]

\* The except clause of lambda_handler, direct invocation.
ExceptionResponse(message) ==
    [success |-> FALSE, error |-> "Unexpected error: " \o message, traceback |-> TRUE]

FetchFailedResponse ==
    [statusCode |-> 500,
     body |-> [error |-> "Failed to get details for fulfillment order " \o FulfillmentOrderGid]]

\* A handler that reports an order without line items as a failed fetch.
NoLineItemsAsFetchFailure(status) ==
    [statusCode |-> 500,
     body |-> [error |-> "Failed to get details for fulfillment order " \o FulfillmentOrderGid]]

NoLineItemsResponse(status) ==
    [statusCode |-> 200,
     body |-> [success |-> TRUE, fulfillment_order_id |-> FulfillmentOrderGid,
               status |-> status, line_items_count |-> 0]]

ItemCategories(cats) ==
    [length_items_count |-> Len(cats.length_rooftopshop) + Len(cats.length_external),
     non_length_items_count |->
        Len(cats.non_length_rooftopshop) + Len(cats.non_length_external),
     items_at_rooftopshop |->
        Len(cats.length_rooftopshop) + Len(cats.non_length_rooftopshop),
     items_at_external |-> Len(cats.length_external) + Len(cats.non_length_external)]

\* A response that reports only the outcome, dropping the committed work.
ResponseDataOutcomeOnly(res, cats) ==
    IF res.error # ""
    THEN [success |-> res.success, fulfillment_order_id |-> FulfillmentOrderGid,
          order_id |-> order_id, splits |-> <<>>, tags_added |-> <<>>,
          item_categories |-> ItemCategories(cats), error |-> res.error]
    ELSE [success |-> res.success, fulfillment_order_id |-> FulfillmentOrderGid,
          order_id |-> order_id, splits |-> res.splits, tags_added |-> res.tags_added,
          item_categories |-> ItemCategories(cats)]

\* response_data, direct invocation.
ResponseData(res, cats) ==
    IF res.error # ""
    THEN [success |-> res.success, fulfillment_order_id |-> FulfillmentOrderGid,
          order_id |-> order_id, splits |-> res.splits, tags_added |-> res.tags_added,
          item_categories |-> ItemCategories(cats), error |-> res.error]
    ELSE [success |-> res.success, fulfillment_order_id |-> FulfillmentOrderGid,
          order_id |-> order_id, splits |-> res.splits, tags_added |-> res.tags_added,
          item_categories |-> ItemCategories(cats)]

\* A failure that records the message and leaves success as it was.
FailedKeepingSuccess(res, message) == [res EXCEPT !.error = message]

\* A failure that clears success and records no message.
FailedWithoutMessage(res, message) == [res EXCEPT !.success = FALSE]

\* results['success'] = False; results['error'] = message
Failed(res, message) == [res EXCEPT !.success = FALSE, !.error = message]

----------------------------------------------------------------------------
(* The remote's answers to a run, and to a second run on the same order *)

NoTwin == [mode |-> "off"]

IsRequest(e) == e.op \in {"fetch", "split"}

\* The fetch and split requests of a log, in order, each with how it ended.
Requests(entries) ==
    LET r == SelectSeq(entries, IsRequest)
    IN  [i \in 1..Len(r) |-> [op |-> r[i].op, items |-> r[i].items, ok |-> r[i].ok]]

\* Whether the operation that makes the call succeeds under this plan.
PlanOk(op, plan) ==
    LET r == send_request_with_retry(plan)
    IN  IF op = "fetch" THEN get_fulfillment_order_details(r.result).kind = "details"
        ELSE IF op = "split" THEN split_fulfillment_order(r.result).new_id # ""
        ELSE add_tag_to_order(r.result)

\* How the operation that makes the call ends under this plan: it succeeds, it
\* reports the failure to its caller, or it raises.
PlanEnd(op, plan) ==
    IF PlanOk(op, plan) THEN "ok"
    ELSE IF op = "fetch"
            /\ get_fulfillment_order_details(send_request_with_retry(plan).result).kind
                  = "raised"
         THEN "raised"
         ELSE "failed"

\* How each call of a finished run ended; a call that raised is the run's last,
\* and lambda_handler's answer then carries the traceback.
Ends(entries, resp) ==
    [i \in 1..Len(entries) |->
        IF entries[i].ok THEN "ok"
        ELSE IF entries[i].op = "fetch" /\ "traceback" \in DOMAIN resp THEN "raised"
        ELSE "failed"]

\* What the remote may do to the next call of operation op. In the second run
\* on an order every tag call succeeds, and a fetch or split ends the way the
\* request in the same position of the first run ended. In a run that is given
\* the responses of an earlier one ("same_responses"), every call, tag calls
\* included, ends the way the call in the same position of that run ended.
CallPlans(op, bodies) ==
    IF twin.mode = "same_responses"
    THEN LET k == Len(log) + 1
         IN  IF k > Len(twin.ends) THEN AttemptPlans(bodies)
             ELSE {p \in AttemptPlans(bodies) : PlanEnd(op, p) = twin.ends[k]}
    ELSE IF twin.mode # "replay" THEN AttemptPlans(bodies)
    ELSE IF op = "tag" THEN {p \in AttemptPlans(bodies) : PlanOk(op, p)}
    ELSE LET k == Len(Requests(log)) + 1
         IN  IF k > Len(twin.requests) THEN AttemptPlans(bodies)
             ELSE {p \in AttemptPlans(bodies) : PlanOk(op, p) = twin.requests[k].ok}

----------------------------------------------------------------------------
(* Steps shared by the call sites *)

fnIdle == UNCHANGED <<fnVars, exVars, nmVars, twin>>

\* A call of get_fulfillment_order_details: the executor's run and the call's end.
FetchCall(plan) ==
    LET r == send_request_with_retry(plan)
    IN  [call |-> CallRecord("fetch", plan, r), end |-> get_fulfillment_order_details(r.result)]

\* The exception of a fetch inside the decision tree reaches lambda_handler's
\* except clause: the results dictionary is lost with the frame that held it.
RaiseToHandler(message) ==
    /\ response' = ExceptionResponse(message)
    /\ pc' = "done"

\* A tag step that treats a tag that was not added as a failure of the run.
TagStepStrict(tag, plan, next) ==
    LET r == send_request_with_retry(plan)
        ok == add_tag_to_order(r.result)
    IN  /\ lastCall' = CallRecord("tag", plan, r)
        /\ log' = Append(log, LogEntry("tag", <<>>, tag, ok))
        /\ results' = IF ok THEN [results EXCEPT !.tags_added = Append(@, tag)]
                      ELSE Failed(results, "Failed to add tag " \o tag)
        /\ pc' = IF ok THEN next ELSE "return"

\* A tag step that lists the tag whether or not the call added it.
TagStepListingEvery(tag, plan, next) ==
    LET r == send_request_with_retry(plan)
        ok == add_tag_to_order(r.result)
    IN  /\ lastCall' = CallRecord("tag", plan, r)
        /\ log' = Append(log, LogEntry("tag", <<>>, tag, ok))
        /\ results' = [results EXCEPT !.tags_added = Append(@, tag)]
        /\ pc' = next

\* "if order_id and add_tag_to_order(order_id, tag): tags_added.append(tag)",
\* when order_id is not empty.
TagStep(tag, plan, next) ==
    LET r == send_request_with_retry(plan)
        ok == add_tag_to_order(r.result)
    IN  /\ lastCall' = CallRecord("tag", plan, r)
        /\ log' = Append(log, LogEntry("tag", <<>>, tag, ok))
        /\ results' = IF ok THEN [results EXCEPT !.tags_added = Append(@, tag)]
                      ELSE results
        /\ pc' = next

SplitItems(bucket) == [i \in 1..Len(bucket) |-> SplitEntry(bucket[i])]

\* The ids of remaining_line_items, built from fulfillment_details['line_items'].
RemainingMap(details) ==
    LET ids == {details.line_items[i].fulfillment_order_line_item_id :
                    i \in 1..Len(details.line_items)}
        Last(id) == CHOOSE i \in 1..Len(details.line_items) :
                        /\ details.line_items[i].fulfillment_order_line_item_id = id
                        /\ \A j \in 1..Len(details.line_items) :
                              details.line_items[j].fulfillment_order_line_item_id = id
                              => j <= i
    IN  [id \in ids |-> details.line_items[Last(id)]]

RECURSIVE AppendToEvery(_, _, _, _)
\* The entry appended to the group of every non-home location from position i on.
AppendToEvery(groups, locations, i, entry) ==
    IF i > Len(locations) THEN groups
    ELSE AppendToEvery(IF locations[i] # RooftopshopMagazijn
                       THEN GroupAppend(groups, locations[i], entry) ELSE groups,
                       locations, i + 1, entry)

\* An inline grouping whose location loop lacks its 'break': the item is filed
\* under every one of its non-home locations.
GroupRemainingOneNoBreak(groups, item, remaining) ==
    IF item.id \in DOMAIN remaining
    THEN LET locations == remaining[item.id].available_locations
             k == FirstExternalIndex(locations)
         IN  IF k # 0 THEN AppendToEvery(groups, locations, 1, SplitEntry(item))
             ELSE IF locations # <<>>
                  THEN GroupAppend(groups, UnknownGroup, SplitEntry(item))
                  ELSE groups
    ELSE groups

\* One pass of the inline grouping loops of the decision tree: only an item
\* still in remaining_line_items is grouped, by its current locations.
GroupRemainingOne(groups, item, remaining) ==
    IF item.id \in DOMAIN remaining
    THEN LET locations == remaining[item.id].available_locations
             k == FirstExternalIndex(locations)
         IN  IF k # 0 THEN GroupAppend(groups, locations[k], SplitEntry(item))
             ELSE IF locations # <<>>
                  THEN GroupAppend(groups, UnknownGroup, SplitEntry(item))
                  ELSE groups
    ELSE groups

RECURSIVE GroupRemainingLoop(_, _, _, _)
GroupRemainingLoop(items, i, groups, remaining) ==
    IF i > Len(items) THEN groups
    ELSE GroupRemainingLoop(items, i + 1,
                            GroupRemainingOne(groups, items[i], remaining), remaining)

\* A loop that goes on to the re-fetch after a split that failed.
LoopSplitGoingOn(plan, failure, tagPc, fetchPc) ==
    LET group == location_groups[group_index]
        r == send_request_with_retry(plan)
        s == split_fulfillment_order(r.result)
    IN  /\ lastCall' = CallRecord("split", plan, r)
        /\ log' = Append(log, LogEntry("split", group.items, "", s.new_id # ""))
        /\ remote' = RemoteAfterSplit(group.items, r.result)
        /\ remoteSplits' = IF r.result \in SplitDoneBodies THEN remoteSplits + 1
                           ELSE remoteSplits
        /\ IF s.new_id # ""
           THEN /\ results' = [results EXCEPT !.splits = Append(@,
                      [type |-> "external_" \o group.location,
                       fulfillment_order_id |-> s.new_id,
                       status |-> s.status,
                       items |-> group.items,
                       location |-> group.location])]
                /\ pc' = IF order_id # "" THEN tagPc ELSE fetchPc
           ELSE /\ results' = Failed(results,
                      failure \o group.location \o ": " \o s.status)
                /\ pc' = fetchPc
        /\ UNCHANGED <<order_id, categories, fulfillment_details, remaining_line_items,
                       location_groups, group_index, response>>

\* Branch A step 2's loop (lines 656-679, 699-703), the split of
\* location_groups[group_index]: record it and go on to the tag and the
\* re-fetch, or set the failure and return.
LoopSplit(plan, failure, tagPc, fetchPc) ==
    LET group == location_groups[group_index]
        r == send_request_with_retry(plan)
        s == split_fulfillment_order(r.result)
    IN  /\ lastCall' = CallRecord("split", plan, r)
        /\ log' = Append(log, LogEntry("split", group.items, "", s.new_id # ""))
        /\ remote' = RemoteAfterSplit(group.items, r.result)
        /\ remoteSplits' = IF r.result \in SplitDoneBodies THEN remoteSplits + 1
                           ELSE remoteSplits
        /\ IF s.new_id # ""
           THEN /\ results' = [results EXCEPT !.splits = Append(@,
                      [type |-> "external_" \o group.location,
                       fulfillment_order_id |-> s.new_id,
                       status |-> s.status,
                       items |-> group.items,
                       location |-> group.location])]
                /\ pc' = IF order_id # "" THEN tagPc ELSE fetchPc
           ELSE /\ results' = Failed(results,
                      failure \o group.location \o ": " \o s.status)
                /\ pc' = "return"
        /\ UNCHANGED <<order_id, categories, fulfillment_details, remaining_line_items,
                       location_groups, group_index, response>>

\* A loop that goes on to the next group after a re-fetch that returned None,
\* keeping the snapshot it had.
LoopFetchIgnoringFailure(plan, failure, splitPc) ==
    LET f == FetchCall(plan)
        group == location_groups[group_index]
    IN  /\ lastCall' = f.call
        /\ log' = Append(log, LogEntry("fetch", <<>>, "", f.end.kind = "details"))
        /\ IF f.end.kind = "raised"
           THEN /\ RaiseToHandler(f.end.message)
                /\ UNCHANGED <<results, fulfillment_details, remaining_line_items,
                               group_index>>
           ELSE /\ fulfillment_details' = IF f.end = None THEN fulfillment_details
                                          ELSE f.end
                /\ remaining_line_items' = IF f.end = None THEN remaining_line_items
                                           ELSE RemainingMap(f.end)
                /\ group_index' = group_index + 1
                /\ pc' = IF group_index + 1 > Len(location_groups) THEN "return"
                         ELSE splitPc
                /\ UNCHANGED <<results, response>>
        /\ UNCHANGED <<order_id, remote, remoteSplits, categories, location_groups>>

\* A loop that stays at the group it has split and re-fetched.
LoopFetchSameGroup(plan, failure, splitPc) ==
    LET f == FetchCall(plan)
        group == location_groups[group_index]
    IN  /\ lastCall' = f.call
        /\ log' = Append(log, LogEntry("fetch", <<>>, "", f.end.kind = "details"))
        /\ IF f.end.kind = "raised"
           THEN /\ RaiseToHandler(f.end.message)
                /\ UNCHANGED <<results, fulfillment_details, remaining_line_items,
                               group_index>>
           ELSE IF f.end = None
           THEN /\ fulfillment_details' = f.end
                /\ results' = Failed(results, failure \o group.location)
                /\ pc' = "return"
                /\ UNCHANGED <<remaining_line_items, group_index, response>>
           ELSE /\ fulfillment_details' = f.end
                /\ remaining_line_items' = RemainingMap(f.end)
                /\ group_index' = group_index
                /\ pc' = splitPc
                /\ UNCHANGED <<results, response>>
        /\ UNCHANGED <<order_id, remote, remoteSplits, categories, location_groups>>

\* A loop that fetches again, for as long as it takes, when the re-fetch after
\* a split returns None.
LoopFetchUntilSuccess(plan, failure, splitPc) ==
    LET f == FetchCall(plan)
        group == location_groups[group_index]
    IN  /\ lastCall' = f.call
        /\ IF f.end.kind = "raised"
           THEN /\ log' = Append(log, LogEntry("fetch", <<>>, "", FALSE))
                /\ RaiseToHandler(f.end.message)
                /\ UNCHANGED <<results, fulfillment_details, remaining_line_items,
                               group_index>>
           ELSE IF f.end = None
           THEN /\ UNCHANGED <<log, pc, results, fulfillment_details,
                               remaining_line_items, group_index, response>>
           ELSE /\ log' = Append(log, LogEntry("fetch", <<>>, "", TRUE))
                /\ fulfillment_details' = f.end
                /\ remaining_line_items' = RemainingMap(f.end)
                /\ group_index' = group_index + 1
                /\ pc' = IF group_index + 1 > Len(location_groups) THEN "return"
                         ELSE splitPc
                /\ UNCHANGED <<results, response>>
        /\ UNCHANGED <<order_id, remote, remoteSplits, categories, location_groups>>

\* Branch A step 2's loop (lines 688-698), the re-fetch after the split of
\* location_groups[group_index].
LoopFetch(plan, failure, splitPc) ==
    LET f == FetchCall(plan)
        group == location_groups[group_index]
    IN  /\ lastCall' = f.call
        /\ log' = Append(log, LogEntry("fetch", <<>>, "", f.end.kind = "details"))
        /\ IF f.end.kind = "raised"
           THEN /\ RaiseToHandler(f.end.message)
                /\ UNCHANGED <<results, fulfillment_details, remaining_line_items,
                               group_index>>
           ELSE IF f.end = None
           THEN /\ fulfillment_details' = f.end
                /\ results' = Failed(results, failure \o group.location)
                /\ pc' = "return"
                /\ UNCHANGED <<remaining_line_items, group_index, response>>
           ELSE /\ fulfillment_details' = f.end
                /\ remaining_line_items' = RemainingMap(f.end)
                /\ group_index' = group_index + 1
                /\ pc' = IF group_index + 1 > Len(location_groups) THEN "return"
                         ELSE splitPc
                /\ UNCHANGED <<results, response>>
        /\ UNCHANGED <<order_id, remote, remoteSplits, categories, location_groups>>

----------------------------------------------------------------------------
(* lambda_handler: the initial fetch and the classification *)

HandlerFetch ==
    /\ pc = "start"
    /\ \E plan \in CallPlans("fetch", FetchBodies) :
         LET f == FetchCall(plan)
         IN  /\ lastCall' = f.call
             /\ log' = Append(log, LogEntry("fetch", <<>>, "", f.end.kind = "details"))
             /\ IF f.end.kind = "raised"
                THEN /\ RaiseToHandler(f.end.message)
                     /\ UNCHANGED <<categories, results>>
                ELSE IF f.end = None
                THEN /\ response' = FetchFailedResponse
                     /\ pc' = "done"
                     /\ UNCHANGED <<categories, results>>
                ELSE IF f.end.line_items = <<>>
                THEN /\ response' = NoLineItemsResponse(f.end.status)
                     /\ pc' = "done"
                     /\ UNCHANGED <<categories, results>>
                ELSE /\ categories' = categorize_items(f.end)
                     /\ results' = InitialResults
                     /\ pc' = "pre_daktrim"
                     /\ UNCHANGED response
    /\ UNCHANGED <<order_id, remote, remoteSplits, fulfillment_details,
                   remaining_line_items, location_groups, group_index>>
    /\ fnIdle

----------------------------------------------------------------------------
(* Pre-step tagging *)

\* A pre-step that tags daktrimFulfillment only when nothing at all is external.
NeedsDaktrimTagAllHome(cats) ==
    cats.summary.has_length_items /\ cats.summary.all_items_at_rooftopshop

NeedsDaktrimTag(cats) ==
    cats.summary.has_length_items /\ Len(cats.length_external) = 0

PreStepDaktrim ==
    /\ pc = "pre_daktrim"
    /\ \/ /\ NeedsDaktrimTag(categories) /\ order_id # ""
          /\ \E plan \in CallPlans("tag", TagBodies) : TagStep(DaktrimTag, plan, "pre_location")
       \/ /\ ~(NeedsDaktrimTag(categories) /\ order_id # "")
          /\ pc' = "pre_location"
          /\ UNCHANGED <<results, log, lastCall>>
    /\ UNCHANGED <<order_id, remote, remoteSplits, categories, fulfillment_details,
                   remaining_line_items, location_groups, group_index, response>>
    /\ fnIdle

\* The distinct non-home locations of the external items.
ExternalLocationsOf(cats) ==
    LET ext == cats.length_external \o cats.non_length_external
    IN  UNION {{ext[i].locations[j] : j \in
                  {k \in 1..Len(ext[i].locations) :
                      ext[i].locations[k] # RooftopshopMagazijn}} :
               i \in 1..Len(ext)}

\* A pre-step that tags the single external location also when items are at home.
SingleExternalLocationAnyHome(cats) ==
    /\ Len(cats.length_external) > 0 \/ Len(cats.non_length_external) > 0
    /\ Cardinality(ExternalLocationsOf(cats)) = 1

SingleExternalLocation(cats) ==
    /\ Len(cats.length_external) > 0 \/ Len(cats.non_length_external) > 0
    /\ Cardinality(ExternalLocationsOf(cats)) = 1
    /\ Len(cats.length_rooftopshop) + Len(cats.non_length_rooftopshop)
         + Len(cats.daktrim_koppelstukje_rooftopshop) = 0

PreStepLocation ==
    /\ pc = "pre_location"
    /\ \/ /\ SingleExternalLocation(categories) /\ order_id # ""
          /\ \E plan \in CallPlans("tag", TagBodies) :
               TagStep(get_location_tag(CHOOSE l \in ExternalLocationsOf(categories) : TRUE),
                       plan, "decision_tree")
       \/ /\ ~(SingleExternalLocation(categories) /\ order_id # "")
          /\ pc' = "decision_tree"
          /\ UNCHANGED <<results, log, lastCall>>
    /\ UNCHANGED <<order_id, remote, remoteSplits, categories, fulfillment_details,
                   remaining_line_items, location_groups, group_index, response>>
    /\ fnIdle

----------------------------------------------------------------------------
(* The first decision, and branch B's folding of the coupling pieces *)

\* A tree that skips the step-1 split when every item is at home.
Step1NeededUnlessAllHome(cats) ==
    cats.length_rooftopshop # <<>> /\ ~cats.summary.all_items_at_rooftopshop

\* "if categories['length_rooftopshop']:"
Step1Needed(cats) == cats.length_rooftopshop # <<>>

\* "if not categories['summary']['all_items_at_rooftopshop']:"
ExternalSplitNeeded(cats) == ~cats.summary.all_items_at_rooftopshop

\* Branch B without its external splits when the pre-step tagged the location.
NonLengthSplitNeededUnlessSingle(cats) ==
    ~cats.summary.all_non_length_at_rooftopshop /\ ~SingleExternalLocation(cats)

\* A branch B that fetches and groups whenever the order holds a non-length
\* item, at home or elsewhere.
NonLengthSplitNeededForAny(cats) ==
    cats.non_length_rooftopshop # <<>> \/ ~cats.summary.all_non_length_at_rooftopshop

\* The else of "if categories['summary']['all_non_length_at_rooftopshop']:"
NonLengthSplitNeeded(cats) == ~cats.summary.all_non_length_at_rooftopshop

\* Branch B: the coupling pieces are appended to non_length_rooftopshop.
FoldCouplingPieces(cats) ==
    [cats EXCEPT !.non_length_rooftopshop = @ \o cats.daktrim_koppelstukje_rooftopshop]

DecisionTree ==
    /\ pc = "decision_tree"
    /\ \/ /\ categories.summary.has_length_items
          /\ pc' = IF Step1Needed(categories) THEN "a1_split"
                   ELSE IF ExternalSplitNeeded(categories) THEN "a2_fetch"
                   ELSE "return"
          /\ UNCHANGED categories
       \/ /\ ~categories.summary.has_length_items
          /\ categories' = FoldCouplingPieces(categories)
          /\ pc' = IF NonLengthSplitNeeded(categories) THEN "b_fetch" ELSE "return"
    /\ UNCHANGED <<order_id, remote, remoteSplits, results, fulfillment_details,
                   remaining_line_items, location_groups, group_index, log, lastCall,
                   response>>
    /\ fnIdle

----------------------------------------------------------------------------
(* Branch A, step 1: the length items at home with the coupling pieces *)

\* A step-1 split that leaves the coupling pieces behind.
CombinedItemsLengthOnly(cats) == SplitItems(cats.length_rooftopshop)

\* combined_items
CombinedItems(cats) ==
    SplitItems(cats.length_rooftopshop) \o SplitItems(cats.daktrim_koppelstukje_rooftopshop)

A1Split ==
    /\ pc = "a1_split"
    /\ \E plan \in CallPlans("split", SplitBodies(CombinedItems(categories))) :
         LET combined_items == CombinedItems(categories)
             r == send_request_with_retry(plan)
             s == split_fulfillment_order(r.result)
         IN  /\ lastCall' = CallRecord("split", plan, r)
             /\ log' = Append(log, LogEntry("split", combined_items, "", s.new_id # ""))
             /\ remote' = RemoteAfterSplit(combined_items, r.result)
             /\ remoteSplits' = IF r.result \in SplitDoneBodies THEN remoteSplits + 1
                                ELSE remoteSplits
             /\ IF s.new_id # ""
                THEN /\ results' = [results EXCEPT !.splits = Append(@,
                           [type |-> "length_rooftopshop_with_koppelstukje",
                            fulfillment_order_id |-> s.new_id,
                            status |-> s.status,
                            items |-> combined_items])]
                     /\ pc' = IF order_id # "" THEN "a1_tag" ELSE "a1_fetch"
                ELSE /\ results' = Failed(results,
                           "Failed to split length items at Rooftopshop: " \o s.status)
                     /\ pc' = "return"
    /\ UNCHANGED <<order_id, categories, fulfillment_details, remaining_line_items,
                   location_groups, group_index, response>>
    /\ fnIdle

A1Tag ==
    /\ pc = "a1_tag"
    /\ \E plan \in CallPlans("tag", TagBodies) : TagStep(DaktrimTag, plan, "a1_fetch")
    /\ UNCHANGED <<order_id, remote, remoteSplits, categories, fulfillment_details,
                   remaining_line_items, location_groups, group_index, response>>
    /\ fnIdle

A1Fetch ==
    /\ pc = "a1_fetch"
    /\ \E plan \in CallPlans("fetch", FetchBodies) :
         LET f == FetchCall(plan)
         IN  /\ lastCall' = f.call
             /\ log' = Append(log, LogEntry("fetch", <<>>, "", f.end.kind = "details"))
             /\ IF f.end.kind = "raised"
                THEN /\ RaiseToHandler(f.end.message)
                     /\ UNCHANGED <<results, fulfillment_details>>
                ELSE IF f.end = None
                THEN /\ results' = Failed(results,
                           "Failed to get updated fulfillment order details after splitting length items at Rooftopshop")
                     /\ fulfillment_details' = f.end
                     /\ pc' = "return"
                     /\ UNCHANGED response
                ELSE /\ fulfillment_details' = f.end
                     /\ pc' = IF ExternalSplitNeeded(categories) THEN "a2_group"
                              ELSE "return"
                     /\ UNCHANGED <<results, response>>
    /\ UNCHANGED <<order_id, remote, remoteSplits, categories, remaining_line_items,
                   location_groups, group_index>>
    /\ fnIdle

----------------------------------------------------------------------------
(* Branch A, step 2: the external items, length and non-length, by location *)

A2Fetch ==
    /\ pc = "a2_fetch"
    /\ \E plan \in CallPlans("fetch", FetchBodies) :
         LET f == FetchCall(plan)
         IN  /\ lastCall' = f.call
             /\ log' = Append(log, LogEntry("fetch", <<>>, "", f.end.kind = "details"))
             /\ IF f.end.kind = "raised"
                THEN /\ RaiseToHandler(f.end.message)
                     /\ UNCHANGED <<results, fulfillment_details>>
                ELSE IF f.end = None
                THEN /\ results' = Failed(results,
                           "Failed to get fulfillment order details before splitting external items")
                     /\ fulfillment_details' = f.end
                     /\ pc' = "return"
                     /\ UNCHANGED response
                ELSE /\ fulfillment_details' = f.end
                     /\ pc' = "a2_group"
                     /\ UNCHANGED <<results, response>>
    /\ UNCHANGED <<order_id, remote, remoteSplits, categories, remaining_line_items,
                   location_groups, group_index>>
    /\ fnIdle

A2Group ==
    /\ pc = "a2_group"
    /\ LET remaining == RemainingMap(fulfillment_details)
           groups == GroupRemainingLoop(categories.non_length_external, 1,
                        GroupRemainingLoop(categories.length_external, 1, <<>>, remaining),
                        remaining)
       IN  /\ remaining_line_items' = remaining
           /\ location_groups' = groups
           /\ group_index' = 1
           /\ pc' = IF groups = <<>> THEN "return" ELSE "a2_split"
    /\ UNCHANGED <<order_id, remote, remoteSplits, categories, results,
                   fulfillment_details, log, lastCall, response>>
    /\ fnIdle

A2Split ==
    /\ pc = "a2_split"
    /\ \E plan \in CallPlans("split", SplitBodies(location_groups[group_index].items)) :
         LoopSplit(plan, "Failed to split items for ", "a2_tag", "a2_refetch")
    /\ fnIdle

A2Tag ==
    /\ pc = "a2_tag"
    /\ \E plan \in CallPlans("tag", TagBodies) :
         TagStep(get_location_tag(location_groups[group_index].location), plan, "a2_refetch")
    /\ UNCHANGED <<order_id, remote, remoteSplits, categories, fulfillment_details,
                   remaining_line_items, location_groups, group_index, response>>
    /\ fnIdle

A2Refetch ==
    /\ pc = "a2_refetch"
    /\ \E plan \in CallPlans("fetch", FetchBodies) :
         LoopFetch(plan,
            "Failed to get updated fulfillment order details after splitting items at ",
            "a2_split")
    /\ fnIdle

----------------------------------------------------------------------------
(* Branch B: the external non-length items by location *)

BFetch ==
    /\ pc = "b_fetch"
    /\ \E plan \in CallPlans("fetch", FetchBodies) :
         LET f == FetchCall(plan)
         IN  /\ lastCall' = f.call
             /\ log' = Append(log, LogEntry("fetch", <<>>, "", f.end.kind = "details"))
             /\ IF f.end.kind = "raised"
                THEN /\ RaiseToHandler(f.end.message)
                     /\ UNCHANGED <<results, fulfillment_details>>
                ELSE IF f.end = None
                THEN /\ results' = Failed(results,
                           "Failed to get fulfillment order details before splitting external non-length items")
                     /\ fulfillment_details' = f.end
                     /\ pc' = "return"
                     /\ UNCHANGED response
                ELSE /\ fulfillment_details' = f.end
                     /\ pc' = "b_group"
                     /\ UNCHANGED <<results, response>>
    /\ UNCHANGED <<order_id, remote, remoteSplits, categories, remaining_line_items,
                   location_groups, group_index>>
    /\ fnIdle

BGroup ==
    /\ pc = "b_group"
    /\ LET remaining == RemainingMap(fulfillment_details)
           groups == GroupRemainingLoop(categories.non_length_external, 1, <<>>, remaining)
       IN  /\ remaining_line_items' = remaining
           /\ location_groups' = groups
           /\ group_index' = 1
           /\ pc' = IF groups = <<>> THEN "return" ELSE "b_split"
    /\ UNCHANGED <<order_id, remote, remoteSplits, categories, results,
                   fulfillment_details, log, lastCall, response>>
    /\ fnIdle

\* A branch B loop that goes from a successful split straight to the re-fetch,
\* without the location's tag.
BSplitWithoutTag ==
    /\ pc = "b_split"
    /\ \E plan \in CallPlans("split", SplitBodies(location_groups[group_index].items)) :
         LET location == location_groups[group_index].location
             items == location_groups[group_index].items
             r == send_request_with_retry(plan)
             s == split_fulfillment_order(r.result)
         IN  /\ lastCall' = CallRecord("split", plan, r)
             /\ log' = Append(log, LogEntry("split", items, "", s.new_id # ""))
             /\ remote' = RemoteAfterSplit(items, r.result)
             /\ remoteSplits' = IF r.result \in SplitDoneBodies THEN remoteSplits + 1
                                ELSE remoteSplits
             /\ IF s.new_id # ""
                THEN /\ results' = [results EXCEPT !.splits = Append(@,
                           [type |-> "external_" \o location,
                            fulfillment_order_id |-> s.new_id,
                            status |-> s.status,
                            items |-> items,
                            location |-> location])]
                     /\ pc' = "b_refetch"
                ELSE /\ results' = Failed(results,
                           "Failed to split non-length items for " \o location
                              \o ": " \o s.status)
                     /\ pc' = "return"
    /\ UNCHANGED <<order_id, categories, fulfillment_details, remaining_line_items,
                   location_groups, group_index, response>>
    /\ fnIdle

\* Branch B's loop, the split of one location group (lines 770-792, 813-817):
\* on success the split is recorded and the loop body goes on; on failure the
\* error is set and 'break' leaves the loop for the 'return results' of line 819.
BSplit ==
    /\ pc = "b_split"
    /\ \E plan \in CallPlans("split", SplitBodies(location_groups[group_index].items)) :
         LET location == location_groups[group_index].location
             items == location_groups[group_index].items
             r == send_request_with_retry(plan)
             s == split_fulfillment_order(r.result)
         IN  /\ lastCall' = CallRecord("split", plan, r)
             /\ log' = Append(log, LogEntry("split", items, "", s.new_id # ""))
             /\ remote' = RemoteAfterSplit(items, r.result)
             /\ remoteSplits' = IF r.result \in SplitDoneBodies THEN remoteSplits + 1
                                ELSE remoteSplits
             /\ IF s.new_id # ""
                THEN /\ results' = [results EXCEPT !.splits = Append(@,
                           [type |-> "external_" \o location,
                            fulfillment_order_id |-> s.new_id,
                            status |-> s.status,
                            items |-> items,
                            location |-> location])]
                     /\ pc' = IF order_id # "" THEN "b_tag" ELSE "b_refetch"
                ELSE /\ results' = Failed(results,
                           "Failed to split non-length items for " \o location
                              \o ": " \o s.status)
                     /\ pc' = "return"
    /\ UNCHANGED <<order_id, categories, fulfillment_details, remaining_line_items,
                   location_groups, group_index, response>>
    /\ fnIdle

\* Branch B's loop, the location's tag (lines 794-800), reached with an order id.
BTag ==
    /\ pc = "b_tag"
    /\ \E plan \in CallPlans("tag", TagBodies) :
         LET tag == get_location_tag(location_groups[group_index].location)
             r == send_request_with_retry(plan)
             added == add_tag_to_order(r.result)
         IN  /\ lastCall' = CallRecord("tag", plan, r)
             /\ log' = Append(log, LogEntry("tag", <<>>, tag, added))
             /\ results' = IF added THEN [results EXCEPT !.tags_added = Append(@, tag)]
                           ELSE results
             /\ pc' = "b_refetch"
    /\ UNCHANGED <<order_id, remote, remoteSplits, categories, fulfillment_details,
                   remaining_line_items, location_groups, group_index, response>>
    /\ fnIdle

\* Branch B's loop, the re-fetch after the split (lines 802-812): a fetch that
\* returns None ends the run with 'return results'; otherwise the remaining
\* line items are rebuilt and the loop goes to the next group, or ends.
BRefetch ==
    /\ pc = "b_refetch"
    /\ \E plan \in CallPlans("fetch", FetchBodies) :
         LET location == location_groups[group_index].location
             f == FetchCall(plan)
         IN  /\ lastCall' = f.call
             /\ log' = Append(log, LogEntry("fetch", <<>>, "", f.end.kind = "details"))
             /\ IF f.end.kind = "raised"
                THEN /\ RaiseToHandler(f.end.message)
                     /\ UNCHANGED <<results, fulfillment_details, remaining_line_items,
                                    group_index>>
                ELSE IF f.end = None
                THEN /\ fulfillment_details' = f.end
                     /\ results' = Failed(results,
                           "Failed to get updated fulfillment order details after splitting non-length items at "
                              \o location)
                     /\ pc' = "return"
                     /\ UNCHANGED <<remaining_line_items, group_index, response>>
                ELSE /\ fulfillment_details' = f.end
                     /\ remaining_line_items' = RemainingMap(f.end)
                     /\ group_index' = group_index + 1
                     /\ pc' = IF group_index + 1 > Len(location_groups) THEN "return"
                              ELSE "b_split"
                     /\ UNCHANGED <<results, response>>
    /\ UNCHANGED <<order_id, remote, remoteSplits, categories, location_groups>>
    /\ fnIdle

----------------------------------------------------------------------------
(* lambda_handler: the response *)

Return ==
    /\ pc = "return"
    /\ response' = ResponseData(results, categories)
    /\ pc' = "done"
    /\ UNCHANGED <<order_id, remote, remoteSplits, categories, results,
                   fulfillment_details, remaining_line_items, location_groups,
                   group_index, log, lastCall>>
    /\ fnIdle

----------------------------------------------------------------------------
(* The specification of one invocation of lambda_handler *)

NoCall == [op |-> "none", sends |-> 0, slept |-> <<>>, none |-> FALSE,
           first200 |-> 0, user_errors |-> <<>>]

Init ==
    /\ order_id \in OrderIds
    /\ remote \in {[i \in 1..Len(items) |-> LineItemNode(items[i])] :
                     items \in ItemLists(MaxItems)}
    /\ remoteSplits = 0
    /\ pc = "start"
    /\ categories = None
    /\ results = None
    /\ fulfillment_details = NoDetails
    /\ remaining_line_items = <<>>
    /\ location_groups = <<>>
    /\ group_index = 0
    /\ log = <<>>
    /\ lastCall = NoCall
    /\ response = NoResponse
    /\ fnItems = <<>>
    /\ fnCategories = None
    /\ fnGroups = <<>>
    /\ fnPc = "idle"
    /\ exOp = "none"
    /\ exOutcomes = <<>>
    /\ exReturn = None
    /\ exEnd = None
    /\ exPc = "idle"
    /\ nmNode = None
    /\ nmItem = None
    /\ nmPc = "idle"
    /\ twin = NoTwin

Next ==
    \/ HandlerFetch
    \/ PreStepDaktrim
    \/ PreStepLocation
    \/ DecisionTree
    \/ A1Split
    \/ A1Tag
    \/ A1Fetch
    \/ A2Fetch
    \/ A2Group
    \/ A2Split
    \/ A2Tag
    \/ A2Refetch
    \/ BFetch
    \/ BGroup
    \/ BSplit
    \/ BTag
    \/ BRefetch
    \/ Return

Spec == Init /\ [][Next]_vars

----------------------------------------------------------------------------
(* Two runs on the same order: one with any tag failures, one with none *)

IsFailedTag(e) == e.op = "tag" /\ ~e.ok

\* The success value of lambda_handler's return value.
FinalSuccess(resp) ==
    IF "success" \in DOMAIN resp THEN resp.success
    ELSE "success" \in DOMAIN resp.body /\ resp.body.success

TagInit ==
    /\ order_id \in {id \in OrderIds : id # ""}
    /\ remote \in {[i \in 1..Len(items) |-> LineItemNode(items[i])] :
                     items \in ItemLists(MaxItems)}
    /\ remoteSplits = 0
    /\ pc = "start"
    /\ categories = None
    /\ results = None
    /\ fulfillment_details = NoDetails
    /\ remaining_line_items = <<>>
    /\ location_groups = <<>>
    /\ group_index = 0
    /\ log = <<>>
    /\ lastCall = NoCall
    /\ response = NoResponse
    /\ fnItems = <<>>
    /\ fnCategories = None
    /\ fnGroups = <<>>
    /\ fnPc = "idle"
    /\ exOp = "none"
    /\ exOutcomes = <<>>
    /\ exReturn = None
    /\ exEnd = None
    /\ exPc = "idle"
    /\ nmNode = None
    /\ nmItem = None
    /\ nmPc = "idle"
    /\ twin = [mode |-> "record", order |-> remote]

\* lambda_handler is invoked again with the same event, against the order as it
\* was before the first run in which a tag call failed; that run's requests
\* and outcome are kept for comparison.
Replay ==
    /\ twin.mode = "record"
    /\ pc = "done"
    /\ \E i \in 1..Len(log) : IsFailedTag(log[i])
    /\ twin' = [mode |-> "replay", order |-> twin.order,
                requests |-> Requests(log), success |-> FinalSuccess(response)]
    /\ remote' = twin.order
    /\ remoteSplits' = 0
    /\ pc' = "start"
    /\ categories' = None
    /\ results' = None
    /\ fulfillment_details' = NoDetails
    /\ remaining_line_items' = <<>>
    /\ location_groups' = <<>>
    /\ group_index' = 0
    /\ log' = <<>>
    /\ lastCall' = NoCall
    /\ response' = NoResponse
    /\ UNCHANGED <<order_id, fnVars, exVars, nmVars>>

TagNext == Next \/ Replay

TagSpec == TagInit /\ [][TagNext]_vars

----------------------------------------------------------------------------
(* The classifier and the grouper on their own *)

\* Most line items handed to categorize_items and group_by_external_location.
MaxFnItems == 2

orchIdle == UNCHANGED <<orchVars, exVars, nmVars, twin>>

FnInit ==
    /\ fnItems \in ItemLists(MaxFnItems)
    /\ fnCategories = None
    /\ fnGroups = <<>>
    /\ fnPc = "input"
    /\ order_id = ""
    /\ remote = <<>>
    /\ remoteSplits = 0
    /\ pc = "idle"
    /\ categories = None
    /\ results = None
    /\ fulfillment_details = NoDetails
    /\ remaining_line_items = <<>>
    /\ location_groups = <<>>
    /\ group_index = 0
    /\ log = <<>>
    /\ lastCall = NoCall
    /\ response = NoResponse
    /\ exOp = "none"
    /\ exOutcomes = <<>>
    /\ exReturn = None
    /\ exEnd = None
    /\ exPc = "idle"
    /\ nmNode = None
    /\ nmItem = None
    /\ nmPc = "idle"
    /\ twin = NoTwin

\* categories = categorize_items(order_details)
FnCategorize ==
    /\ fnPc = "input"
    /\ fnCategories' = categorize_items(Details(OrderStatus, fnItems))
    /\ fnPc' = "classified"
    /\ UNCHANGED <<fnItems, fnGroups>>
    /\ orchIdle

\* group_by_external_location over the details of every item, at home or not.
FnGroup ==
    /\ fnPc = "classified"
    /\ fnGroups' = group_by_external_location(
                      [i \in 1..Len(fnItems) |-> item_details(fnItems[i])])
    /\ fnPc' = "grouped"
    /\ UNCHANGED <<fnItems, fnCategories>>
    /\ orchIdle

FnNext == FnCategorize \/ FnGroup

FnSpec == FnInit /\ [][FnNext]_vars

----------------------------------------------------------------------------
(* One call of each remote operation, on its own *)

\* The order the single calls are made against: a length item at home and a
\* non-length item at Compri Aluminium.
ExecOrder ==
    <<LineItemNode(LineItem(LineIds[1], 1, <<RooftopshopMagazijn>>, TRUE, FALSE)),
      LineItemNode(LineItem(LineIds[2], 2, <<CompriAluminium>>, FALSE, FALSE))>>

\* The items the single split call asks to split off.
ExecSplitItems == <<[id |-> LineIds[2], quantity |-> 2]>>

\* The status codes of the remote's non-success answers.
FailureStatusCodes == {429, 500}

\* What requests.post may do on one attempt of a call of operation op.
AttemptOutcomes(op) ==
    {RaisesException}
    \cup {HttpResponse(c, None) : c \in FailureStatusCodes}
    \cup {HttpResponse(200, b) :
            b \in IF op = "fetch" THEN FetchBodies
                  ELSE IF op = "split" THEN SplitBodies(ExecSplitItems)
                  ELSE TagBodies}

ExecInit ==
    /\ order_id = "5001"
    /\ remote = ExecOrder
    /\ remoteSplits = 0
    /\ pc = "idle"
    /\ categories = None
    /\ results = None
    /\ fulfillment_details = NoDetails
    /\ remaining_line_items = <<>>
    /\ location_groups = <<>>
    /\ group_index = 0
    /\ log = <<>>
    /\ lastCall = NoCall
    /\ response = NoResponse
    /\ fnItems = <<>>
    /\ fnCategories = None
    /\ fnGroups = <<>>
    /\ fnPc = "idle"
    /\ exOp \in {"fetch", "split", "tag"}
    \* the remote has an answer ready for one attempt more than the loop may make
    /\ exOutcomes \in [1..(max_retries + 1) -> AttemptOutcomes(exOp)]
    /\ exReturn = None
    /\ exEnd = None
    /\ exPc = "call"
    /\ nmNode = None
    /\ nmItem = None
    /\ nmPc = "idle"
    /\ twin = NoTwin

ExecIdle ==
    UNCHANGED <<order_id, pc, categories, results, fulfillment_details,
                remaining_line_items, location_groups, group_index, log, lastCall,
                response, fnVars, exOp, exOutcomes, nmVars, twin>>

\* get_fulfillment_order_details(fulfillment_order_id)
ExecFetch ==
    /\ exPc = "call" /\ exOp = "fetch"
    /\ exReturn' = send_request_with_retry(exOutcomes)
    /\ exEnd' = FetchCall(exOutcomes).end
    /\ exPc' = "done"
    /\ UNCHANGED <<remote, remoteSplits>>
    /\ ExecIdle

\* split_fulfillment_order(fulfillment_order_id, items_to_split)
ExecSplit ==
    /\ exPc = "call" /\ exOp = "split"
    /\ LET r == send_request_with_retry(exOutcomes)
       IN  /\ exReturn' = r
           /\ exEnd' = split_fulfillment_order(r.result)
           /\ remote' = RemoteAfterSplit(ExecSplitItems, r.result)
           /\ remoteSplits' = IF r.result \in SplitDoneBodies THEN remoteSplits + 1
                              ELSE remoteSplits
    /\ exPc' = "done"
    /\ ExecIdle

\* add_tag_to_order(order_id, tag)
ExecTag ==
    /\ exPc = "call" /\ exOp = "tag"
    /\ LET r == send_request_with_retry(exOutcomes)
       IN  /\ exReturn' = r
           /\ exEnd' = add_tag_to_order(r.result)
    /\ exPc' = "done"
    /\ UNCHANGED <<remote, remoteSplits>>
    /\ ExecIdle

ExecNext == ExecFetch \/ ExecSplit \/ ExecTag

ExecSpec == ExecInit /\ [][ExecNext]_vars

----------------------------------------------------------------------------
(* The normalisation of one line-item node, on its own *)

\* Texts a flag metafield may hold.
FlagTexts == {"true", "True", "false", "yes"}

\* Values an availability_location metafield may hold: a JSON list of location
\* names, a JSON string, JSON null, and text that is not JSON.
AvailabilityValues ==
    {JsonList(l) : l \in LocationLists}
    \cup {JsonString(""), JsonString(CompriAluminium), JsonNull,
          NotJson(""), NotJson(CompriAluminium)}

Metafields ==
    {[key |-> "availability_location", value |-> v] : v \in AvailabilityValues}
    \cup {[key |-> k, value |-> t] :
            k \in {"length_transport", "daktrim_koppelstukje"}, t \in FlagTexts}
    \cup {[key |-> "supplier", value |-> "true"]}

\* Most metafield nodes of one variant.
MaxMetafields == 2

NormInit ==
    /\ nmNode \in {[id |-> LineIds[1], quantity |-> 1, metafields |-> ms] :
                     ms \in SeqsUpTo(Metafields, MaxMetafields)}
    /\ nmItem = None
    /\ nmPc = "fetched"
    /\ order_id = ""
    /\ remote = <<>>
    /\ remoteSplits = 0
    /\ pc = "idle"
    /\ categories = None
    /\ results = None
    /\ fulfillment_details = NoDetails
    /\ remaining_line_items = <<>>
    /\ location_groups = <<>>
    /\ group_index = 0
    /\ log = <<>>
    /\ lastCall = NoCall
    /\ response = NoResponse
    /\ fnItems = <<>>
    /\ fnCategories = None
    /\ fnGroups = <<>>
    /\ fnPc = "idle"
    /\ exOp = "none"
    /\ exOutcomes = <<>>
    /\ exReturn = None
    /\ exEnd = None
    /\ exPc = "idle"
    /\ twin = NoTwin

\* get_fulfillment_order_details on a response whose only edge is nmNode.
Normalize ==
    /\ nmPc = "fetched"
    /\ nmItem' = get_fulfillment_order_details(
                    FetchBody("", TRUE, <<nmNode>>)).line_items[1]
    /\ nmPc' = "parsed"
    /\ UNCHANGED <<nmNode, orchVars, fnVars, exVars, twin>>

NormNext == Normalize

NormSpec == NormInit /\ [][NormNext]_vars

----------------------------------------------------------------------------
(* The two per-location loops, run on the same groups and the same responses *)

\* A line-item node with its length_transport metafield set to "false".
WithoutLengthFlag(node) ==
    [node EXCEPT !.metafields =
        [i \in 1..Len(node.metafields) |->
            IF node.metafields[i].key = "length_transport"
            THEN [key |-> "length_transport", value |-> BoolText(FALSE)]
            ELSE node.metafields[i]]]

\* What the caller of lambda_handler can see of a run's result, the wording of
\* the error and the item counts aside.
Outcome(resp) ==
    IF "splits" \in DOMAIN resp
    THEN [success |-> resp.success, splits |-> resp.splits,
          tags_added |-> resp.tags_added, failed |-> "error" \in DOMAIN resp]
    ELSE [success |-> FinalSuccess(resp), splits |-> <<>>, tags_added |-> <<>>,
          failed |-> ~FinalSuccess(resp)]

LoopInit ==
    /\ order_id \in OrderIds
    /\ remote \in {[i \in 1..Len(items) |-> LineItemNode(items[i])] :
                     items \in ItemLists(MaxItems)}
    /\ remoteSplits = 0
    /\ pc = "start"
    /\ categories = None
    /\ results = None
    /\ fulfillment_details = NoDetails
    /\ remaining_line_items = <<>>
    /\ location_groups = <<>>
    /\ group_index = 0
    /\ log = <<>>
    /\ lastCall = NoCall
    /\ response = NoResponse
    /\ fnItems = <<>>
    /\ fnCategories = None
    /\ fnGroups = <<>>
    /\ fnPc = "idle"
    /\ exOp = "none"
    /\ exOutcomes = <<>>
    /\ exReturn = None
    /\ exEnd = None
    /\ exPc = "idle"
    /\ nmNode = None
    /\ nmItem = None
    /\ nmPc = "idle"
    /\ twin = [mode |-> "first", order |-> remote]

\* A run whose order had length items, all external, has sent the splits of
\* branch A's step 2. lambda_handler is invoked for the order that differs only
\* in that no item is a length item, so that it takes branch B, and the remote
\* answers each call as it answered the call in the same position of that run.
RunBranchB ==
    /\ twin.mode = "first"
    /\ pc = "done"
    /\ categories # None
    /\ categories.summary.has_length_items
    /\ categories.length_rooftopshop = <<>>
    /\ \E i \in 1..Len(log) : log[i].op = "split"
    /\ twin' = [mode |-> "same_responses", order |-> twin.order, calls |-> log,
                ends |-> Ends(log, response), groups |-> location_groups, outcome |-> Outcome(response)]
    /\ remote' = [i \in 1..Len(twin.order) |-> WithoutLengthFlag(twin.order[i])]
    /\ remoteSplits' = 0
    /\ pc' = "start"
    /\ categories' = None
    /\ results' = None
    /\ fulfillment_details' = NoDetails
    /\ remaining_line_items' = <<>>
    /\ location_groups' = <<>>
    /\ group_index' = 0
    /\ log' = <<>>
    /\ lastCall' = NoCall
    /\ response' = NoResponse
    /\ UNCHANGED <<order_id, fnVars, exVars, nmVars>>

LoopNext == Next \/ RunBranchB

LoopSpec == LoopInit /\ [][LoopNext]_vars

----------------------------------------------------------------------------

(* Two invocations of lambda_handler for the same fulfillment order *)

\* Most line items of an order that two invocations process at a time.
MaxConcItems == 1

\* What one invocation holds in its own frame; the remote order is all that
\* two invocations share.
Locals ==
    [pc |-> pc, categories |-> categories, results |-> results,
     fulfillment_details |-> fulfillment_details,
     remaining_line_items |-> remaining_line_items,
     location_groups |-> location_groups, group_index |-> group_index,
     log |-> log, lastCall |-> lastCall, response |-> response]

NotStarted ==
    [pc |-> "start", categories |-> None, results |-> None,
     fulfillment_details |-> NoDetails, remaining_line_items |-> <<>>,
     location_groups |-> <<>>, group_index |-> 0, log |-> <<>>,
     lastCall |-> NoCall, response |-> NoResponse]

ConcInit ==
    /\ order_id \in OrderIds
    /\ remote \in {[i \in 1..Len(items) |-> LineItemNode(items[i])] :
                     items \in ItemLists(MaxConcItems)}
    /\ remoteSplits = 0
    /\ pc = "start"
    /\ categories = None
    /\ results = None
    /\ fulfillment_details = NoDetails
    /\ remaining_line_items = <<>>
    /\ location_groups = <<>>
    /\ group_index = 0
    /\ log = <<>>
    /\ lastCall = NoCall
    /\ response = NoResponse
    /\ fnItems = <<>>
    /\ fnCategories = None
    /\ fnGroups = <<>>
    /\ fnPc = "idle"
    /\ exOp = "none"
    /\ exOutcomes = <<>>
    /\ exReturn = None
    /\ exEnd = None
    /\ exPc = "idle"
    /\ nmNode = None
    /\ nmItem = None
    /\ nmPc = "idle"
    /\ twin = [mode |-> "peer", locals |-> NotStarted]

\* The other invocation takes its next steps: nothing in the code makes one
\* invocation wait for the other, so the turn may change between any two steps.
Switch ==
    /\ twin.mode = "peer"
    /\ twin.locals.pc # "done"
    /\ twin' = [mode |-> "peer", locals |-> Locals]
    /\ pc' = twin.locals.pc
    /\ categories' = twin.locals.categories
    /\ results' = twin.locals.results
    /\ fulfillment_details' = twin.locals.fulfillment_details
    /\ remaining_line_items' = twin.locals.remaining_line_items
    /\ location_groups' = twin.locals.location_groups
    /\ group_index' = twin.locals.group_index
    /\ log' = twin.locals.log
    /\ lastCall' = twin.locals.lastCall
    /\ response' = twin.locals.response
    /\ UNCHANGED <<order_id, remote, remoteSplits, fnVars, exVars, nmVars>>

ConcNext == Next \/ Switch

ConcSpec == ConcInit /\ [][ConcNext]_vars

----------------------------------------------------------------------------

(* One invocation of lambda_handler that is not abandoned half-way *)

\* The interpreter takes the handler's next step whenever there is one: every
\* requests.post returns or raises within its timeout, and nothing else blocks.
LiveSpec == Init /\ [][Next]_vars /\ WF_vars(Next)

----------------------------------------------------------------------------

(* Two runs on the same order: one with an order id, one without *)

\* lambda_handler is invoked again for the same fulfillment order, as it was
\* before the first run, with no OrderId in the event; the first run's fetch
\* and split requests and its outcome are kept for comparison.
ReplayWithoutOrderId ==
    /\ twin.mode = "record"
    /\ pc = "done"
    /\ twin' = [mode |-> "replay", order |-> twin.order,
                requests |-> Requests(log), success |-> FinalSuccess(response)]
    /\ order_id' = ""
    /\ remote' = twin.order
    /\ remoteSplits' = 0
    /\ pc' = "start"
    /\ categories' = None
    /\ results' = None
    /\ fulfillment_details' = NoDetails
    /\ remaining_line_items' = <<>>
    /\ location_groups' = <<>>
    /\ group_index' = 0
    /\ log' = <<>>
    /\ lastCall' = NoCall
    /\ response' = NoResponse
    /\ UNCHANGED <<fnVars, exVars, nmVars>>

IdNext == Next \/ ReplayWithoutOrderId

IdSpec == TagInit /\ [][IdNext]_vars

----------------------------------------------------------------------------

(* Properties: the run's outcome *)

IsSplit(e) == e.op = "split"
IsOkSplit(e) == e.op = "split" /\ e.ok
IsOkTag(e) == e.op = "tag" /\ e.ok
ItemsOf(entries) == [i \in 1..Len(entries) |-> entries[i].items]
TagsOf(entries) == [i \in 1..Len(entries) |-> entries[i].tag]
OpsOf(entries) == [i \in 1..Len(entries) |-> entries[i].op]
AllCallsSucceeded == \A i \in 1..Len(log) : log[i].ok

\* The decision tree ran: the initial fetch returned line items.
TreeRan == results # None

\* A split succeeded and a later split or re-fetch failed.
FailedAfterSplit ==
    \E i, j \in 1..Len(log) :
        /\ i < j
        /\ IsOkSplit(log[i])
        /\ log[j].op \in {"split", "fetch"} /\ ~log[j].ok

\* A split or a re-fetch of the decision tree failed (log[1] is lambda_handler's
\* own fetch).
TreeStepFailed ==
    \E i \in 2..Len(log) : log[i].op \in {"split", "fetch"} /\ ~log[i].ok

\* C1: whenever a split has succeeded and a later split or re-fetch fails (the
\* executor exhausted its retries, application errors, order absent), the
\* returned result has success=false and lists every split that succeeded and
\* every tag that was applied before the failure.
C1_PartialResultsReturned ==
    (pc = "done" /\ FailedAfterSplit) =>
        /\ response.success = FALSE
        /\ "splits" \in DOMAIN response
        /\ ItemsOf(response.splits) = ItemsOf(SelectSeq(log, IsOkSplit))
        /\ "tags_added" \in DOMAIN response
        /\ response.tags_added = TagsOf(SelectSeq(log, IsOkTag))

\* C2: the result the decision tree returns, and the outcome lambda_handler
\* reports for it, has success=false exactly when a split or a re-fetch of the
\* run failed; a run whose tree completes, with or without splits, has
\* success=true.
C2_SuccessIffNoStepFailed ==
    /\ pc = "return" => (results.success = FALSE <=> TreeStepFailed)
    /\ (pc = "done" /\ TreeRan) => (response.success = FALSE <=> TreeStepFailed)
    /\ (pc = "return" /\ ~TreeStepFailed) => results.error = ""

\* A run that failed at a re-fetch after a split had succeeded.
C2_Witness ==
    /\ pc = "return"
    /\ ~results.success
    /\ Len(results.splits) >= 1
    /\ log[Len(log)].op = "fetch"

\* The order of scenario 1: one line item, length transport, at home only.
Scenario1 ==
    /\ categories # None
    /\ Len(categories.length_rooftopshop) = 1
    /\ categories.length_rooftopshop[1].locations = <<RooftopshopMagazijn>>
    /\ Len(categories.non_length_rooftopshop) + Len(categories.length_external)
         + Len(categories.non_length_external)
         + Len(categories.daktrim_koppelstukje_rooftopshop) = 0

Scenario1Ran == Scenario1 /\ order_id # "" /\ pc = "done" /\ AllCallsSucceeded

\* C3 as stated: in scenario 1 with an order id and every call succeeding, the
\* run issues no split request, adds daktrimFulfillment and returns success=true
\* with an empty splits list.
C3_NoSplitForLengthAtHome ==
    Scenario1Ran =>
        /\ SelectSeq(log, IsSplit) = <<>>
        /\ \E i \in 1..Len(response.tags_added) : response.tags_added[i] = DaktrimTag
        /\ response.success = TRUE
        /\ response.splits = <<>>

\* C3 amended: in scenario 1 with an order id and every call succeeding, the run
\* tags daktrimFulfillment in the pre-step, issues one split request for the
\* length item (branch A step 1), tags daktrimFulfillment again, re-fetches, and
\* returns success=true with that one split listed.
C3_OneSplitForLengthAtHome ==
    Scenario1Ran =>
        /\ OpsOf(log) = <<"fetch", "tag", "split", "tag", "fetch">>
        /\ log[2].tag = DaktrimTag /\ log[4].tag = DaktrimTag
        /\ log[3].items = SplitItems(categories.length_rooftopshop)
        /\ response.success = TRUE
        /\ ItemsOf(response.splits) = <<SplitItems(categories.length_rooftopshop)>>
        /\ response.tags_added = <<DaktrimTag, DaktrimTag>>

C3_Witness == Scenario1Ran /\ response.success /\ Len(response.splits) = 1

\* Every external item shares one external location and nothing is at home.
SingleLocationOrder ==
    /\ categories # None
    /\ SingleExternalLocation(categories)
    /\ order_id # ""

TheLocation == CHOOSE l \in ExternalLocationsOf(categories) : TRUE

HasLocation(d) == d.locations # <<>>

\* C4 as stated: when all external items share one external location and no
\* item is at home, the run applies the location's tag in the pre-step, issues
\* no split request at all, and returns success=true (read here in its most
\* favourable case: an order id is supplied and every remote call succeeds).
C4_TagInsteadOfSplit ==
    (SingleLocationOrder /\ pc = "done" /\ AllCallsSucceeded) =>
        /\ log[2].op = "tag" /\ log[2].tag = get_location_tag(TheLocation)
        /\ SelectSeq(log, IsSplit) = <<>>
        /\ response.success = TRUE

\* C4 amended: in such an order, with an order id, the location's tag is
\* requested in the pre-step, before any split or re-fetch; the decision tree
\* then still runs: with every remote call succeeding it fetches the order,
\* issues exactly one split request, holding the items located there, tags the
\* location again, re-fetches and returns success=true with that split listed.
C4_TagThenSplit ==
    SingleLocationOrder =>
        /\ pc \notin {"pre_daktrim", "pre_location"} =>
              /\ Len(log) >= 2
              /\ log[2].op = "tag" /\ log[2].tag = get_location_tag(TheLocation)
        /\ (pc = "done" /\ AllCallsSucceeded) =>
              /\ OpsOf(log) = <<"fetch", "tag", "fetch", "split", "tag", "fetch">>
              /\ log[4].items = SplitItems(SelectSeq(
                    categories.length_external \o categories.non_length_external,
                    HasLocation))
              /\ log[5].tag = get_location_tag(TheLocation)
              /\ response.success = TRUE
              /\ ItemsOf(response.splits) = <<log[4].items>>
              /\ response.tags_added = <<log[2].tag, log[2].tag>>

\* Scenario 2 has run: two non-length items, both at Compri Aluminium only.
C4_Witness ==
    /\ SingleLocationOrder /\ pc = "done" /\ AllCallsSucceeded
    /\ Len(categories.non_length_external) = 2
    /\ \A i \in 1..2 : categories.non_length_external[i].locations = <<CompriAluminium>>
    /\ response.tags_added = <<"compriFulfillment", "compriFulfillment">>

\* The order of scenario 3: a length item at home, a non-length item at Redfox.
Scenario3 ==
    /\ categories # None
    /\ Len(categories.length_rooftopshop) = 1
    /\ Len(categories.non_length_external) = 1
    /\ categories.non_length_external[1].locations = <<RedfoxEPDM>>
    /\ Len(categories.non_length_rooftopshop) + Len(categories.length_external)
         + Len(categories.daktrim_koppelstukje_rooftopshop) = 0

\* C5: in scenario 3 with every call succeeding the run issues exactly two
\* split requests: first the length item, followed by the daktrimFulfillment
\* tag and a re-fetch, then the external item, grouped under Redfox EPDM and
\* followed by the redfoxFulfillment tag; splits has two entries and
\* success=true. (The tag requests are those of a run with an order id; without
\* one the same splits and fetches are issued and no tag.)
C5_TwoSplitsInOrder ==
    (Scenario3 /\ pc = "done" /\ AllCallsSucceeded) =>
        /\ ItemsOf(SelectSeq(log, IsSplit)) =
              <<SplitItems(categories.length_rooftopshop),
                SplitItems(categories.non_length_external)>>
        /\ IF order_id # ""
           THEN /\ OpsOf(log) = <<"fetch", "tag", "split", "tag", "fetch",
                                  "split", "tag", "fetch">>
                /\ log[4].tag = DaktrimTag
                /\ log[7].tag = "redfoxFulfillment"
           ELSE OpsOf(log) = <<"fetch", "split", "fetch", "split", "fetch">>
        /\ response.success = TRUE
        /\ Len(response.splits) = 2
        /\ response.splits[1].type = "length_rooftopshop_with_koppelstukje"
        /\ response.splits[2].location = RedfoxEPDM

C5_Witness ==
    /\ Scenario3 /\ pc = "done" /\ AllCallsSucceeded /\ order_id # ""
    /\ Len(response.splits) = 2

\* The latest call was a split that came back with a user-error list.
SplitGotUserErrors ==
    /\ pc \in {"return", "done"}
    /\ lastCall.op = "split"
    /\ lastCall.user_errors # <<>>

UserErrorStatus == "User errors from Shopify API: " \o JsonDumps(lastCall.user_errors)

\* C6: a split that returns a user-error list is not sent again (the executor
\* sent nothing after the 200 response that carried it, and the run issues no
\* further operation); the run ends with success=false and an error holding the
\* user-error message; the splits and tags completed before it stay listed.
C6_UserErrorEndsRun ==
    SplitGotUserErrors =>
        /\ lastCall.sends = lastCall.first200
        /\ log[Len(log)].op = "split" /\ ~log[Len(log)].ok
        /\ results.success = FALSE
        /\ \/ results.error =
                "Failed to split length items at Rooftopshop: " \o UserErrorStatus
           \/ \E g \in 1..Len(location_groups) :
                \/ results.error = "Failed to split items for "
                      \o location_groups[g].location \o ": " \o UserErrorStatus
                \/ results.error = "Failed to split non-length items for "
                      \o location_groups[g].location \o ": " \o UserErrorStatus
        /\ ItemsOf(results.splits) = ItemsOf(SelectSeq(log, IsOkSplit))
        /\ results.tags_added = TagsOf(SelectSeq(log, IsOkTag))
        /\ pc = "done" =>
              /\ response.success = FALSE
              /\ response.error = results.error
              /\ response.splits = results.splits
              /\ response.tags_added = results.tags_added

\* A user error on the second split, answered on the executor's second attempt,
\* after a split and its tags went through.
C6_Witness ==
    /\ SplitGotUserErrors /\ pc = "done"
    /\ lastCall.sends = 2
    /\ Len(response.splits) = 1
    /\ Len(response.tags_added) >= 1

----------------------------------------------------------------------------
(* Properties: the classifier and the grouper *)

Classified == fnPc \in {"classified", "grouped"}

BucketIds(b) == {fnCategories[b][i].id : i \in 1..Len(fnCategories[b])}
InputIds == {fnItems[i].fulfillment_order_line_item_id : i \in 1..Len(fnItems)}

\* C7: the five buckets partition the input: their sizes sum to the number of
\* line items, every item is in a bucket, and no id is in two buckets.
C7_Partition ==
    Classified =>
        /\ Len(fnCategories.length_rooftopshop) + Len(fnCategories.non_length_rooftopshop)
             + Len(fnCategories.length_external) + Len(fnCategories.non_length_external)
             + Len(fnCategories.daktrim_koppelstukje_rooftopshop) = Len(fnItems)
        /\ UNION {BucketIds(b) : b \in BucketNames} = InputIds
        /\ \A b1, b2 \in BucketNames : b1 # b2 => BucketIds(b1) \cap BucketIds(b2) = {}

\* Two items classified, one of them a length-flagged coupling piece at home.
C7_Witness ==
    /\ fnPc = "classified"
    /\ Len(fnItems) >= 2
    /\ \E i \in 1..Len(fnItems) :
          /\ fnItems[i].is_daktrim_koppelstukje /\ fnItems[i].is_length_transport
          /\ is_at_rooftopshop(fnItems[i])
    /\ Cardinality({b \in BucketNames : BucketIds(b) # {}}) = 2

\* C8: a coupling piece at home is in daktrim_koppelstukje_rooftopshop whatever
\* its length flag, and in neither at-home bucket; a coupling piece that is not
\* at home is classified by its length flag alone.
C8_CouplingPrecedence ==
    Classified =>
        \A i \in 1..Len(fnItems) :
            LET item == fnItems[i]
                id == item.fulfillment_order_line_item_id
                home == \E j \in 1..Len(item.available_locations) :
                            item.available_locations[j] = RooftopshopMagazijn
            IN  item.is_daktrim_koppelstukje =>
                   IF home
                   THEN /\ id \in BucketIds("daktrim_koppelstukje_rooftopshop")
                        /\ id \notin BucketIds("length_rooftopshop")
                        /\ id \notin BucketIds("non_length_rooftopshop")
                   ELSE IF item.is_length_transport
                        THEN id \in BucketIds("length_external")
                        ELSE id \in BucketIds("non_length_external")

\* A length-flagged coupling piece at home beside a coupling piece elsewhere.
C8_Witness ==
    /\ fnPc = "classified"
    /\ \E i, j \in 1..Len(fnItems) :
          /\ fnItems[i].is_daktrim_koppelstukje /\ fnItems[i].is_length_transport
          /\ is_at_rooftopshop(fnItems[i])
          /\ fnItems[j].is_daktrim_koppelstukje /\ ~is_at_rooftopshop(fnItems[j])
    /\ Len(fnCategories.daktrim_koppelstukje_rooftopshop) = 1

\* C9: all_items_at_rooftopshop holds exactly when both external buckets are
\* empty, has_length_items exactly when a length bucket is not empty; an order
\* whose length-flagged items are all coupling pieces at home has
\* has_length_items = FALSE.
C9_SummaryMatchesBuckets ==
    Classified =>
        /\ fnCategories.summary.all_items_at_rooftopshop <=>
              (fnCategories.length_external = <<>> /\ fnCategories.non_length_external = <<>>)
        /\ fnCategories.summary.has_length_items <=>
              (fnCategories.length_rooftopshop # <<>> \/ fnCategories.length_external # <<>>)
        /\ (\A i \in 1..Len(fnItems) :
               fnItems[i].is_length_transport =>
                  fnItems[i].is_daktrim_koppelstukje /\ is_at_rooftopshop(fnItems[i]))
             => ~fnCategories.summary.has_length_items

\* The only length-flagged item is a coupling piece at home.
C9_Witness ==
    /\ fnPc = "classified"
    /\ \E i \in 1..Len(fnItems) : fnItems[i].is_length_transport
    /\ \A i \in 1..Len(fnItems) :
          fnItems[i].is_length_transport =>
             fnItems[i].is_daktrim_koppelstukje /\ is_at_rooftopshop(fnItems[i])
    /\ ~fnCategories.summary.has_length_items
    /\ ~fnCategories.summary.all_items_at_rooftopshop

\* Where the grouper has put the line item 'id'.
GroupPlaces(id) ==
    {p \in (1..Len(fnGroups)) \X (1..Len(fnItems)) :
        /\ p[2] <= Len(fnGroups[p[1]].items)
        /\ fnGroups[p[1]].items[p[2]].id = id}

\* The group the claim names for a location list.
ExpectedGroup(locations) ==
    IF \A j \in 1..Len(locations) : locations[j] = RooftopshopMagazijn
    THEN UnknownGroup
    ELSE locations[CHOOSE j \in 1..Len(locations) :
                      /\ locations[j] # RooftopshopMagazijn
                      /\ \A k \in 1..(j - 1) : locations[k] = RooftopshopMagazijn]

\* C10: every input item is in exactly one group, that of the first entry of
\* its location list that is not the home warehouse, or "unknown" when the list
\* is empty or names only the home warehouse; its entry is its id and quantity.
C10_FirstExternalLocation ==
    fnPc = "grouped" =>
        /\ \A i \in 1..Len(fnItems) :
              LET item == fnItems[i]
                  places == GroupPlaces(item.fulfillment_order_line_item_id)
              IN  /\ Cardinality(places) = 1
                  /\ \A p \in places :
                        /\ fnGroups[p[1]].location = ExpectedGroup(item.available_locations)
                        /\ fnGroups[p[1]].items[p[2]] =
                              [id |-> item.fulfillment_order_line_item_id,
                               quantity |-> item.quantity]
        /\ \A g, h \in 1..Len(fnGroups) :
              fnGroups[g].location = fnGroups[h].location => g = h

\* An item listing home before an external location, and one without locations.
C10_Witness ==
    /\ fnPc = "grouped"
    /\ \E i, j \in 1..Len(fnItems) :
          /\ fnItems[i].available_locations = <<RooftopshopMagazijn, RedfoxEPDM>>
          /\ fnItems[j].available_locations = <<>>
    /\ Len(fnGroups) = 2

----------------------------------------------------------------------------
(* Properties: the executor and the operations that call it *)

IsFailedAttempt(o) ==
    o.kind = "exception" \/ (o.kind = "response" /\ o.status_code # 200)

ExecDone == exPc = "done"

\* C11: one call sends at least one and at most max_retries (3) requests; every
\* request but the last one sent ended in a transport failure or a non-200
\* status; a 200 response ends the call and its body is what is returned; and
\* the call returns None exactly when max_retries attempts all failed.
C11_ExecutorContract ==
    ExecDone =>
        /\ exReturn.sends \in 1..3
        /\ \A i \in 1..(exReturn.sends - 1) : IsFailedAttempt(exOutcomes[i])
        /\ ~IsFailedAttempt(exOutcomes[exReturn.sends]) =>
              exReturn.result = exOutcomes[exReturn.sends].json
        /\ IsFailedAttempt(exOutcomes[exReturn.sends]) => exReturn.sends = 3
        /\ exReturn.result = None <=> \A i \in 1..3 : IsFailedAttempt(exOutcomes[i])

\* Two failed attempts, a 200 on the third, and another 200 never asked for.
C11_Witness ==
    /\ ExecDone
    /\ exOutcomes[1] = RaisesException
    /\ exOutcomes[2] = HttpResponse(429, None)
    /\ ~IsFailedAttempt(exOutcomes[3]) /\ ~IsFailedAttempt(exOutcomes[4])
    /\ exReturn.sends = 3
    /\ exReturn.result = exOutcomes[3].json

\* The first 200 response of the call carries an 'errors' list.
First200HasErrors ==
    /\ First200(exOutcomes) # 0
    /\ exOutcomes[First200(exOutcomes)].json.errors # ""

\* C12: a 200 response with an application-level error list is not retried:
\* it is the last request of the call and its body is what the executor
\* returns; the operation that made the call ends as failed on it (fetch: None,
\* split: no new id and the GraphQL-errors message, tag: False) and, for a
\* split, the remote order is left as it was.
C12_ErrorsNotRetried ==
    (ExecDone /\ First200HasErrors /\ First200(exOutcomes) <= max_retries) =>
        /\ exReturn.sends = First200(exOutcomes)
        /\ exReturn.result = exOutcomes[First200(exOutcomes)].json
        /\ exOp = "fetch" => exEnd = None
        /\ exOp = "split" =>
              /\ exEnd = SplitReturn("", "GraphQL errors from Shopify API: "
                                         \o exReturn.result.errors)
              /\ remote = ExecOrder
        /\ exOp = "tag" => exEnd = FALSE

\* A split answered 200 with errors on the second attempt, a clean 200 after it.
C12_Witness ==
    /\ ExecDone /\ exOp = "split"
    /\ IsFailedAttempt(exOutcomes[1])
    /\ First200HasErrors /\ First200(exOutcomes) = 2
    /\ exOutcomes[3] \in {HttpResponse(200, b) : b \in SplitDoneBodies}
    /\ exReturn.sends = 2

\* C13: fetch returns None, as a value, when the executor returned None, when
\* the response carries application errors, and when the response does not
\* hold the fulfillment order.
C13_FetchReturnsNull ==
    (ExecDone /\ exOp = "fetch") =>
        /\ exReturn.result = None => exEnd = None
        /\ (exReturn.result # None /\ exReturn.result.errors # "") => exEnd = None
        /\ (exReturn.result # None /\ ~exReturn.result.found) => exEnd = None

\* The sleeps the claim names for a call whose first f attempts failed.
ClaimedSleeps(f) ==
    [k \in 1..(IF f < 3 THEN f ELSE 2) |-> 2000 * k]
        \o (IF f < 3 THEN <<500>> ELSE <<>>)

FailedBeforeSuccess ==
    IF First200(exOutcomes) \in 1..3 THEN First200(exOutcomes) - 1 ELSE 3

\* C16: the waits of one call, in milliseconds and in order: 2000 * k after the
\* k-th failed attempt for k < max_retries (2s, then 4s), none after the last
\* failed attempt, and 500 after the 200 response that ends the call.
C16_ExecutorWaits ==
    ExecDone => exReturn.slept = ClaimedSleeps(FailedBeforeSuccess)

\* A call whose three attempts failed: a non-200 status, then two exceptions.
C16_Witness ==
    /\ ExecDone
    /\ exOutcomes[1] = HttpResponse(500, None)
    /\ exOutcomes[2] = RaisesException /\ exOutcomes[3] = RaisesException
    /\ exReturn.result = None
    /\ exReturn.slept = <<2000, 4000>>

----------------------------------------------------------------------------
(* Properties: the normalisation of availability_location *)

\* Positions of the node's availability_location metafields.
AvailabilityAt ==
    {i \in 1..Len(nmNode.metafields) : nmNode.metafields[i].key = "availability_location"}

\* The value the loop reads last: that of the last such metafield.
LastAvailability ==
    nmNode.metafields[CHOOSE i \in AvailabilityAt : \A j \in AvailabilityAt : j <= i].value

\* C15 as stated: a value that parses to a list yields that list; a value that
\* fails to parse, or parses to something else, yields no location when the raw
\* value is falsy (empty) and otherwise the one-element list holding the raw
\* value.
C15_RawValueFallback ==
    (nmPc = "parsed" /\ AvailabilityAt # {}) =>
        nmItem.available_locations =
            IF LastAvailability.json = "list" THEN LastAvailability.items
            ELSE IF RawText(LastAvailability) = "" THEN <<>>
            ELSE <<RawText(LastAvailability)>>

\* C15 amended: a value that parses to a list yields that list; a value that
\* fails to parse yields no location, whatever the raw text; a value that
\* parses to something that is not a list yields no location when the parsed
\* value is falsy (null, the empty string) and otherwise the one-element list
\* holding the parsed value.
C15_ParsedValueFallback ==
    (nmPc = "parsed" /\ AvailabilityAt # {}) =>
        LET v == LastAvailability
            got == nmItem.available_locations
        IN  /\ v.json = "list" => got = v.items
            /\ v.json = "invalid" => got = <<>>
            /\ v.json = "null" => got = <<>>
            /\ v.json = "string" => got = (IF v.str = "" THEN <<>> ELSE <<v.str>>)

\* Text that is not JSON and is not empty has been normalised to no location.
C15_Witness ==
    /\ nmPc = "parsed"
    /\ AvailabilityAt # {}
    /\ LastAvailability = NotJson(CompriAluminium)
    /\ nmItem.available_locations = <<>>

----------------------------------------------------------------------------
(* Properties: the decision tree's requests *)

\* The order had no line item when lambda_handler fetched it, and the fetch
\* succeeded.
EmptyOrderFetched ==
    /\ log # <<>> /\ log[1].op = "fetch" /\ log[1].ok
    /\ remote = <<>> /\ remoteSplits = 0

\* C17: when the initial fetch succeeds and returns no line item, the handler
\* ends there with a successful outcome (status 200, success true, a line-item
\* count of 0) and the run holds no request besides that fetch: no split, no
\* tag, no further fetch.
C17_EmptyOrderIsTerminal ==
    EmptyOrderFetched =>
        /\ pc = "done"
        /\ response.statusCode = 200
        /\ response.body.success = TRUE
        /\ response.body.line_items_count = 0
        /\ OpsOf(log) = <<"fetch">>
        /\ results = None

\* The fetch of an empty order went through on the executor's second attempt.
C17_Witness ==
    /\ EmptyOrderFetched /\ pc = "done"
    /\ lastCall.op = "fetch" /\ lastCall.sends = 2

\* The items the decision tree groups by location.
ExternalCandidates == categories.length_external \o categories.non_length_external

\* Where the decision tree's grouping has put the line item 'id'.
LoopGroupPlaces(id) ==
    {p \in (1..Len(location_groups)) \X (1..Len(ExternalCandidates)) :
        /\ p[2] <= Len(location_groups[p[1]].items)
        /\ location_groups[p[1]].items[p[2]].id = id}

InSomeSplit(id) ==
    \E i \in 1..Len(log) :
        log[i].op = "split" /\ \E k \in 1..Len(log[i].items) : log[i].items[k].id = id

\* C18: once the decision tree has grouped (branch A step 2, branch B), every
\* item of the external buckets that is in the snapshot the grouping used is in
\* exactly one location group: that of the first non-home entry of its current
\* location list, or "unknown" when that list is empty or names only home; and
\* in a run whose calls all succeed every such item is in a split request.
C18_EveryRemainingItemGrouped ==
    /\ (pc \in {"a2_split", "b_split"} /\ group_index = 1) =>
          \A i \in 1..Len(ExternalCandidates) :
             LET id == ExternalCandidates[i].id
             IN  id \in DOMAIN remaining_line_items =>
                   /\ Cardinality(LoopGroupPlaces(id)) = 1
                   /\ \A p \in LoopGroupPlaces(id) :
                         location_groups[p[1]].location =
                            ExpectedGroup(remaining_line_items[id].available_locations)
    /\ (pc = "done" /\ TreeRan /\ AllCallsSucceeded) =>
          \A i \in 1..Len(ExternalCandidates) : InSomeSplit(ExternalCandidates[i].id)

AtLoopSplit == pc \in {"a2_split", "b_split"}

\* C19: when the decision tree is about to send the split of a location group
\* (branch A step 2, branch B; the first group and every later one), every
\* line-item id of the request is in the latest fetched snapshot, and is a
\* line item the remote order holds at that moment.
C19_SplitIdsInSnapshot ==
    AtLoopSplit =>
        \A k \in 1..Len(location_groups[group_index].items) :
            /\ location_groups[group_index].items[k].id \in DOMAIN remaining_line_items
            /\ location_groups[group_index].items[k].id \in NodeIds(remote)

\* The second group is about to be split, after the first group's split and
\* the re-fetch that followed it.
C19_Witness ==
    /\ AtLoopSplit /\ group_index = 2
    /\ Len(results.splits) >= 1
    /\ log[Len(log)].op = "fetch" /\ log[Len(log)].ok
    /\ Len(location_groups) = 2

BranchA == categories # None /\ categories.summary.has_length_items

BeforeStep1Sent == pc \in {"start", "pre_daktrim", "pre_location", "decision_tree", "a1_split"}

\* The ids and quantities of a bucket's items, in the bucket's order.
IdsAndQuantities(bucket) ==
    [i \in 1..Len(bucket) |-> [id |-> bucket[i].id, quantity |-> bucket[i].quantity]]

HomeIds ==
    {categories.length_rooftopshop[i].id : i \in 1..Len(categories.length_rooftopshop)}
    \cup {categories.daktrim_koppelstukje_rooftopshop[i].id :
            i \in 1..Len(categories.daktrim_koppelstukje_rooftopshop)}

TouchesHome(e) == \E k \in 1..Len(e.items) : e.items[k].id \in HomeIds

\* C20: in branch A with length items at home, the run sends exactly one
\* step-1 split, before any other split, and its item list is the ids and
\* quantities of the length-at-home items followed by those of the coupling
\* pieces at home; with no length item at home no split request of the run
\* holds a coupling piece at home (nor any other item at home).
C20_Step1Split ==
    BranchA =>
        LET splits == SelectSeq(log, IsSplit)
        IN  IF categories.length_rooftopshop # <<>>
            THEN IF BeforeStep1Sent THEN splits = <<>>
                 ELSE /\ Len(splits) >= 1
                      /\ splits[1].items =
                            IdsAndQuantities(categories.length_rooftopshop)
                            \o IdsAndQuantities(categories.daktrim_koppelstukje_rooftopshop)
                      /\ \A i \in 2..Len(splits) : ~TouchesHome(splits[i])
            ELSE \A i \in 1..Len(splits) : ~TouchesHome(splits[i])

\* A length item and a coupling piece, both at home, went out in one split.
C20_Witness ==
    /\ BranchA /\ pc = "done"
    /\ Len(categories.length_rooftopshop) = 1
    /\ Len(categories.daktrim_koppelstukje_rooftopshop) = 1
    /\ "splits" \in DOMAIN response
    /\ Len(response.splits) = 1
    /\ Len(response.splits[1].items) = 2

----------------------------------------------------------------------------
(* Properties: tagging is best-effort *)

\* The fetch or split the run is about to send, if it is about to send one.
AtFetch == pc \in {"start", "a1_fetch", "a2_fetch", "a2_refetch", "b_fetch", "b_refetch"}
AtSplit == pc \in {"a1_split", "a2_split", "b_split"}
PendingItems ==
    IF pc = "a1_split" THEN CombinedItems(categories)
    ELSE IF pc \in {"a2_split", "b_split"} THEN location_groups[group_index].items
    ELSE <<>>

IsPrefix(short, long) ==
    /\ Len(short) <= Len(long)
    /\ \A i \in 1..Len(short) : short[i] = long[i]

\* C14: take a run in which tag calls failed (no response, application errors
\* or user errors) and the run on the same order in which every tag call
\* succeeds and each fetch and split ends as in the first: the second run sends
\* the same fetch and split requests, in the same order and with the same item
\* lists, and returns the same success value. In any run, a tag call that
\* failed leaves success true and no error, and the run goes on.
C14_TagsBestEffort ==
    /\ twin.mode = "replay" =>
          /\ IsPrefix(Requests(log), twin.requests)
          /\ (AtFetch \/ AtSplit) =>
                LET k == Len(Requests(log)) + 1
                IN  /\ k <= Len(twin.requests)
                    /\ twin.requests[k].op = (IF AtFetch THEN "fetch" ELSE "split")
                    /\ twin.requests[k].items = PendingItems
          /\ pc = "done" =>
                /\ Requests(log) = twin.requests
                /\ FinalSuccess(response) = twin.success
    /\ (log # <<>> /\ IsFailedTag(log[Len(log)])) =>
          /\ pc \notin {"return", "done"}
          /\ results.success = TRUE
          /\ results.error = ""

\* The second run of an order has ended, with two splits, where the first run
\* had a tag call fail.
C14_Witness ==
    /\ twin.mode = "replay" /\ pc = "done"
    /\ Len(SelectSeq(log, IsOkSplit)) = 2
    /\ Len(SelectSeq(log, IsOkTag)) >= 2
    /\ twin.success = TRUE

----------------------------------------------------------------------------
(* Properties: the order of the run's remote operations *)

IsFailedSplit(e) == e.op = "split" /\ ~e.ok

\* C21: a split that failed (branch A step 1, branch A step 2, branch B) is the
\* last remote operation of the run: no split, tag or fetch follows it, the
\* tree has set success to false and is returning.
C21_NothingAfterFailedSplit ==
    \A i \in 1..Len(log) :
        IsFailedSplit(log[i]) =>
            /\ i = Len(log)
            /\ pc \in {"return", "done"}
            /\ results.success = FALSE

\* The run ended at the failed split of the second location group, after the
\* first group's split, tag and re-fetch.
C21_Witness ==
    /\ pc = "done"
    /\ IsFailedSplit(log[Len(log)])
    /\ group_index = 2
    /\ Len(results.splits) = 1
    /\ \E i \in 1..Len(log) : log[i].op = "tag"

SplitPositions == {i \in 1..Len(log) : log[i].op = "split"}

\* The tag the tree requests after the split it recorded as entry s of splits.
TagAfterSplit(s) ==
    IF "location" \in DOMAIN s THEN get_location_tag(s.location) ELSE DaktrimTag

\* The number of log entries from a successful split to the next split: the
\* tag request (sent only when an order id was supplied) and the re-fetch.
SplitStride == IF order_id # "" THEN 3 ELSE 2

\* C22: every split request but the last of the run succeeded; a successful
\* split is followed by the tag request of its step (when an order id was
\* supplied; none is sent otherwise) and then by the re-fetch, and by nothing
\* else before the next split; the request just before a second or later split
\* is that re-fetch, and it succeeded. The tree is never about to send a split
\* with the previous split's re-fetch not yet made or failed.
C22_SplitTagRefetch ==
    /\ \A i \in SplitPositions :
          LET n == Cardinality({k \in SplitPositions : k <= i})
          IN  /\ (\E j \in SplitPositions : i < j) =>
                    /\ log[i].ok
                    /\ i + SplitStride \in SplitPositions
                    /\ \A k \in (i + 1)..(i + SplitStride - 1) : k \notin SplitPositions
              /\ log[i].ok =>
                    /\ (order_id # "" /\ i + 1 <= Len(log)) =>
                          /\ log[i + 1].op = "tag"
                          /\ log[i + 1].tag = TagAfterSplit(results.splits[n])
                    /\ i + SplitStride - 1 <= Len(log) =>
                          log[i + SplitStride - 1].op = "fetch"
                    /\ i + SplitStride <= Len(log) =>
                          /\ log[i + SplitStride - 1].ok
                          /\ log[i + SplitStride].op = "split"
                    /\ pc \in {"return", "done"} => i + SplitStride - 1 <= Len(log)
    /\ (AtSplit /\ SplitPositions # {}) =>
          /\ log[Len(log)].op = "fetch" /\ log[Len(log)].ok
          /\ Len(log) - SplitStride + 1 \in SplitPositions

\* A run with an order id made two splits, each followed by its tag request
\* and its re-fetch, and one of the tag requests failed.
C22_Witness ==
    /\ pc = "done" /\ order_id # ""
    /\ Cardinality(SplitPositions) = 2
    /\ \A i \in SplitPositions : log[i].ok /\ log[i + 1].op = "tag" /\ log[i + 2].op = "fetch"
    /\ \E i \in SplitPositions : ~log[i + 1].ok
    /\ log[Len(log)].ok

BranchB == categories # None /\ ~categories.summary.has_length_items

\* C23: in branch B with no external non-length item the decision tree sends
\* nothing to the remote (the run's only request is lambda_handler's own fetch,
\* made before the classification): no fetch, no split, no tag, pre-step
\* included; it returns success=true, no error, and empty splits and tags_added.
C23_NothingToDoInBranchB ==
    (BranchB /\ categories.non_length_external = <<>>) =>
        /\ OpsOf(log) = <<"fetch">>
        /\ pc \in {"pre_daktrim", "pre_location", "decision_tree", "return", "done"}
        /\ results = InitialResults
        /\ pc = "done" =>
              /\ response.success = TRUE
              /\ response.splits = <<>>
              /\ response.tags_added = <<>>
              /\ "error" \notin DOMAIN response

\* An order of a non-length item and a coupling piece, both at home, has been
\* answered; an order id was supplied and still no tag was requested.
C23_Witness ==
    /\ BranchB /\ categories.non_length_external = <<>>
    /\ pc = "done" /\ order_id # ""
    /\ Len(categories.daktrim_koppelstukje_rooftopshop) = 1
    /\ Len(categories.non_length_rooftopshop) = 2

\* The order has length items, none of them external, and an order id came
\* with the request.
DaktrimPreStepDue ==
    /\ categories # None
    /\ categories.summary.has_length_items
    /\ categories.length_external = <<>>
    /\ order_id # ""

\* C24: when the order has length items, none external, and an order id was
\* supplied, the first request of the decision tree (the second of the run,
\* after lambda_handler's own fetch that the classification needs) is the tag
\* request for daktrimFulfillment: every split and every fetch of the tree
\* comes after it, whether that tag request succeeds or not and whatever the
\* splits after it do.
C24_DaktrimTagFirst ==
    (DaktrimPreStepDue /\ pc # "pre_daktrim") =>
        /\ Len(log) >= 2
        /\ log[1].op = "fetch"
        /\ log[2].op = "tag" /\ log[2].tag = DaktrimTag
        /\ \A i \in 2..Len(log) : log[i].op \in {"split", "fetch"} => i > 2

\* The pre-step's tag request failed; the tree went on to the step-1 split,
\* which failed too, and the run ended.
C24_Witness ==
    /\ DaktrimPreStepDue /\ pc = "done"
    /\ Len(log) = 3
    /\ IsFailedTag(log[2])
    /\ IsFailedSplit(log[3])

----------------------------------------------------------------------------
(* Properties: the two per-location loops *)

IsFailedRequest(e) == e.op \in {"split", "fetch"} /\ ~e.ok

\* Branch B's loop is running, or has run, over the location groups that
\* branch A's step 2 ran over, with the remote answering as it did then.
SameGroupsSameResponses ==
    /\ twin.mode = "same_responses"
    /\ pc \in {"b_split", "b_tag", "b_refetch", "return", "done"}
    /\ location_groups = twin.groups

\* C25: when branch B's loop runs over the same ordered location groups as
\* branch A's step 2 did, with each call answered the same way, it sends the
\* same requests in the same order (split with the same items, tag with the
\* same tag, fetch) and the run returns the same success value, the same
\* splits list and the same tags_added list, with an error exactly when the
\* other returned one. In both loops a failed split or failed re-fetch is the
\* last request of the run.
C25_LoopsEquivalent ==
    /\ SameGroupsSameResponses =>
          /\ IsPrefix(log, twin.calls)
          /\ pc = "b_split" => twin.calls[Len(log) + 1].op = "split"
          /\ pc = "b_tag" => twin.calls[Len(log) + 1].op = "tag"
          /\ pc = "b_refetch" => twin.calls[Len(log) + 1].op = "fetch"
          /\ pc = "done" =>
                /\ log = twin.calls
                /\ Outcome(response) = twin.outcome
    /\ twin.mode \in {"first", "same_responses"} =>
          \A i \in 1..Len(log) : IsFailedRequest(log[i]) => i = Len(log)

\* Branch B's loop has ended at the failed split of the second of two groups,
\* as branch A's did, after one recorded split and its tag.
C25_Witness ==
    /\ SameGroupsSameResponses /\ pc = "done"
    /\ Len(location_groups) = 2
    /\ IsFailedSplit(log[Len(log)])
    /\ Len(twin.outcome.splits) = 1
    /\ Len(twin.outcome.tags_added) = 1
    /\ ~categories.summary.has_length_items

----------------------------------------------------------------------------
(* Properties: two invocations for the same order *)

SplitIdsOf(entries) ==
    UNION {SplitItemIds(entries[i].items) :
             i \in {k \in 1..Len(entries) : entries[k].op = "split"}}

\* No line item is in two split requests of these log entries.
NoItemSplitTwice(entries) ==
    \A i, j \in 1..Len(entries) :
        (i < j /\ entries[i].op = "split" /\ entries[j].op = "split") =>
            SplitItemIds(entries[i].items) \cap SplitItemIds(entries[j].items) = {}

\* C26: one invocation never puts a line item in two of its own split
\* requests, alone or interleaved with another invocation for the same order;
\* and an invocation that runs alone (the other has not started) is never about
\* to send a split request for a line item the remote order no longer holds.
\* (That two interleaved invocations classify the same snapshot and both send
\* a split request holding the same line item is the state C26_Witness
\* describes, which is reachable.)
C26_OneInstanceNeverRepeats ==
    twin.mode = "peer" =>
        /\ NoItemSplitTwice(log)
        /\ NoItemSplitTwice(twin.locals.log)
        /\ (twin.locals = NotStarted /\ AtSplit) =>
              /\ SplitItemIds(PendingItems) \subseteq NodeIds(remote)
              /\ SplitItemIds(PendingItems) \cap SplitIdsOf(log) = {}

\* Both invocations fetched the order before either split it, classified the
\* same snapshot, and each sent a split request holding the same line item;
\* the remote performed the first and refused the second.
C26_Witness ==
    /\ twin.mode = "peer"
    /\ pc = "done" /\ twin.locals.pc = "done"
    /\ categories # None /\ categories = twin.locals.categories
    /\ SplitIdsOf(log) \cap SplitIdsOf(twin.locals.log) # {}
    /\ \E i \in 1..Len(log) : IsFailedSplit(log[i])
    /\ \E i \in 1..Len(twin.locals.log) : IsOkSplit(twin.locals.log[i])

----------------------------------------------------------------------------
(* Properties: termination *)

\* The most split requests the tree may have sent: the step-1 split, when the
\* order has length items at home, and one for each location group.
MostSplits ==
    (IF categories # None /\ categories.summary.has_length_items
        /\ Step1Needed(categories) THEN 1 ELSE 0)
    + Len(location_groups)

\* The most requests of a run: lambda_handler's fetch, the two pre-step tags,
\* the fetch before the grouping, and a split, a tag and a re-fetch for step 1
\* and for each location group.
MostRequests == 4 + 3 * MostSplits

\* C27: every invocation reaches its end, whatever the remote does to each call
\* (answer, fail every attempt, answer with errors); on the way no call sends
\* more than max_retries requests, and the run sends at most one step-1 split
\* and one split for each location group, of which there are no more than
\* external items in the order.
C27_RunTerminates ==
    /\ <>(pc = "done")
    /\ [](/\ lastCall.sends <= max_retries
          /\ Cardinality(SplitPositions) <= MostSplits
          /\ Len(log) <= MostRequests
          /\ categories # None => Len(location_groups) <= Len(ExternalCandidates))

\* A run has ended after the step-1 split and the split of a location group,
\* its last call having used all of max_retries attempts.
C27_Witness ==
    /\ pc = "done"
    /\ Cardinality(SplitPositions) = 2
    /\ Len(location_groups) = 1
    /\ lastCall.sends = max_retries

----------------------------------------------------------------------------
(* Properties: the results dictionary *)

\* C28: in the results dictionary of the decision tree, at every step and so
\* when it is returned, error is set exactly when success is false, and the
\* response built from it carries an error exactly then; once error is set the
\* dictionary does not change any more (error is assigned at most once), and
\* success never goes from false back to true.
C28_ErrorIffNotSuccess ==
    /\ [](/\ results # None => (results.error # "" <=> results.success = FALSE)
          /\ (pc = "done" /\ "splits" \in DOMAIN response) =>
                /\ response.success = results.success
                /\ "error" \in DOMAIN response <=> response.success = FALSE)
    /\ [][/\ (results # None /\ results.error # "") => results' = results
          /\ (results # None /\ results.success = FALSE) =>
                (results' # None /\ results'.success = FALSE)]_vars

\* The tree is returning a failure, with its message, after a recorded split.
C28_Witness ==
    /\ pc = "return"
    /\ results.success = FALSE
    /\ results.error # ""
    /\ Len(results.splits) = 1

----------------------------------------------------------------------------
(* Properties: the split requests of one run *)

\* The tree has sent its step-1 split.
Step1Sent ==
    /\ BranchA /\ Step1Needed(categories)
    /\ SplitPositions # {}

\* The split requests of the per-location loop, in order.
LoopSplitsSent ==
    LET splits == SelectSeq(log, IsSplit)
    IN  IF Step1Sent THEN Tail(splits) ELSE splits

\* C29: with distinct line-item ids in the order, no line item is in two split
\* requests of a run: the step-1 request and the location groups' requests are
\* pairwise disjoint. The location groups have distinct names and pairwise
\* disjoint items, none of them an item of the step-1 request, and the n-th
\* split of the loop is the request of the n-th group: no location name gets a
\* second split request.
C29_SplitsDisjoint ==
    /\ NoItemSplitTwice(log)
    /\ \A i, j \in 1..Len(location_groups) :
          i # j =>
             /\ location_groups[i].location # location_groups[j].location
             /\ SplitItemIds(location_groups[i].items)
                   \cap SplitItemIds(location_groups[j].items) = {}
    /\ \A i \in 1..Len(location_groups) :
          /\ NoRepeat(location_groups[i].items)
          /\ SplitItemIds(location_groups[i].items)
                \cap SplitItemIds(CombinedItems(categories)) = {}
    /\ Len(LoopSplitsSent) <= Len(location_groups)
    /\ \A n \in 1..Len(LoopSplitsSent) :
          LoopSplitsSent[n].items = location_groups[n].items
    /\ Step1Sent => log[CHOOSE i \in SplitPositions : \A j \in SplitPositions : i <= j].items
                       = CombinedItems(categories)

\* A run has split off two location groups, one line item each.
C29_Witness ==
    /\ pc = "done"
    /\ Len(location_groups) = 2
    /\ Len(results.splits) = 2
    /\ location_groups[1].location = CompriAluminium
    /\ location_groups[2].location = RedfoxEPDM

----------------------------------------------------------------------------
(* Properties: tags_added, and runs without an order id *)

\* C30: tags_added holds the tags of the tag calls that returned True, in the
\* order the calls were made, and nothing else. A run without an order id
\* sends no tag request and has an empty tags_added; it sends the fetch and
\* split requests, in the same order and with the same item lists, that the
\* run on the same order with an order id sent (each fetch and split ending as
\* it did there), and returns the same success value.
C30_TagsAddedAndNoOrderId ==
    /\ results # None => results.tags_added = TagsOf(SelectSeq(log, IsOkTag))
    /\ (pc = "done" /\ "tags_added" \in DOMAIN response) =>
          response.tags_added = TagsOf(SelectSeq(log, IsOkTag))
    /\ order_id = "" =>
          /\ \A i \in 1..Len(log) : log[i].op # "tag"
          /\ results # None => results.tags_added = <<>>
          /\ twin.mode = "replay"
          /\ IsPrefix(Requests(log), twin.requests)
          /\ (AtFetch \/ AtSplit) =>
                LET k == Len(Requests(log)) + 1
                IN  /\ k <= Len(twin.requests)
                    /\ twin.requests[k].op = (IF AtFetch THEN "fetch" ELSE "split")
                    /\ twin.requests[k].items = PendingItems
          /\ pc = "done" =>
                /\ Requests(log) = twin.requests
                /\ FinalSuccess(response) = twin.success

\* The run without an order id has ended after two splits, with no tag
\* requested, where the run with an order id sent the same two splits.
C30_Witness ==
    /\ twin.mode = "replay" /\ order_id = "" /\ pc = "done"
    /\ Len(SelectSeq(log, IsOkSplit)) = 2
    /\ OpsOf(log) = <<"fetch", "split", "fetch", "split", "fetch">>
    /\ "tags_added" \in DOMAIN response
    /\ response.tags_added = <<>>
    /\ response.success = TRUE

----------------------------------------------------------------------------
(* Properties: how often a tag is requested in one run *)

TagPositions == {i \in 1..Len(log) : log[i].op = "tag"}

\* The tag requests of the pre-step: those sent before the decision tree's
\* first request (log[1] is lambda_handler's own fetch).
PreStepTags == {i \in TagPositions : \A j \in 2..(i - 1) : log[j].op = "tag"}

\* The tag requests that follow a successful split.
AfterSplitTags == {i \in TagPositions : i > 1 /\ log[i - 1].op = "split" /\ log[i - 1].ok}

TimesRequested(tag) == Cardinality({i \in TagPositions : log[i].tag = tag})

TimesListed(tags, tag) == Cardinality({i \in 1..Len(tags) : tags[i] = tag})

\* C31 as stated: no two tag requests of a run carry the same tag, and
\* tags_added holds no tag twice.
C31_EachTagOnce ==
    /\ \A i, j \in TagPositions : i # j => log[i].tag # log[j].tag
    /\ results # None => NoRepeat(results.tags_added)
    /\ (pc = "done" /\ "tags_added" \in DOMAIN response) => NoRepeat(response.tags_added)

\* C31 amended: a run sends at most one pre-step tag request and one tag
\* request after each successful split, and no other; the requests that follow
\* splits carry pairwise different tags, so a tag is requested, and listed in
\* tags_added, at most twice, and only the pre-step's tag can be there twice;
\* with every remote call succeeding the pre-step's tag is requested exactly
\* twice, the second time after the split it belongs to, and tags_added
\* lists it twice.
C31_PreStepTagRepeated ==
    /\ TagPositions = PreStepTags \cup AfterSplitTags
    /\ Cardinality(PreStepTags) <= 1
    /\ \A i, j \in AfterSplitTags : i # j => log[i].tag # log[j].tag
    /\ \A i \in TagPositions :
         /\ TimesRequested(log[i].tag) <= 2
         /\ results # None => TimesListed(results.tags_added, log[i].tag) <= 2
         /\ TimesRequested(log[i].tag) = 2 => \E p \in PreStepTags : log[p].tag = log[i].tag
    /\ (pc = "done" /\ AllCallsSucceeded) =>
          \A p \in PreStepTags :
             /\ TimesRequested(log[p].tag) = 2
             /\ \E s \in AfterSplitTags : log[s].tag = log[p].tag
             /\ TimesListed(response.tags_added, log[p].tag) = 2

\* A run has ended after the step-1 split and one location group's split, with
\* daktrimFulfillment requested in the pre-step and again after step 1.
C31_Witness ==
    /\ pc = "done" /\ AllCallsSucceeded
    /\ OpsOf(log) = <<"fetch", "tag", "split", "tag", "fetch", "split", "tag", "fetch">>
    /\ log[2].tag = DaktrimTag /\ log[4].tag = DaktrimTag
    /\ log[7].tag = "redfoxFulfillment"
    /\ response.tags_added = <<DaktrimTag, DaktrimTag, "redfoxFulfillment">>

----------------------------------------------------------------------------
(* Properties: the classification after the decision tree has run *)

BucketIdsOf(cats, b) == {cats[b][i].id : i \in 1..Len(cats[b])}

BucketsDisjoint(cats) ==
    \A b1, b2 \in BucketNames :
       b1 # b2 => BucketIdsOf(cats, b1) \cap BucketIdsOf(cats, b2) = {}

\* The items the buckets hold, each once, as line items.
HeldItems(cats) ==
    LET held == UNION {{cats[b][i] : i \in 1..Len(cats[b])} : b \in BucketNames}
        s == CHOOSE f \in [1..Cardinality(held) -> held] :
                {f[i] : i \in 1..Cardinality(held)} = held
    IN  [i \in 1..Cardinality(held) |->
            LineItem(s[i].id, s[i].quantity, s[i].locations,
                     s[i].is_length_transport, s[i].is_daktrim_koppelstukje)]

\* C32 as stated: process_fulfillment_according_to_decision_tree leaves the
\* categories it is given as categorize_items returned them, in both branches:
\* the five buckets stay pairwise disjoint, no bucket ever changes once the
\* classifier has filled it, and the counts of item_categories in the response
\* are those of the classifier's partition of the items.
C32_ClassificationUnchanged ==
    /\ [](/\ categories # None => BucketsDisjoint(categories)
          /\ (pc = "done" /\ "item_categories" \in DOMAIN response) =>
                response.item_categories =
                   ItemCategories(categorize_items([line_items |-> HeldItems(categories)])))
    /\ [][categories # None => categories' = categories]_vars

====
